---- MODULE Spec2Model ----
(***************************************************************************)
(* Model of the product store of src/database_manager.py (ProductDatabase) *)
(* as a state machine over the store file, the backup directory and the    *)
(* wall clock.  Every public method is a pure operator on a Disk record    *)
(* that returns the new disk, the method's return value and the exception  *)
(* (if any) that leaves the method; one action per method applies it.      *)
(*                                                                         *)
(* Abstractions: a product record is its url, its scrape_source tag and a  *)
(* flag for the insertion metadata add_products writes; timestamps kept in *)
(* the metadata (created, last_updated) are not part of any decision the   *)
(* code takes and are left out.  A backup is its file name (the second it  *)
(* was taken in) and the kind of content it copied; the backup directory   *)
(* is kept ordered by st_mtime, oldest first.                              *)
(***************************************************************************)
EXTENDS Integers, Sequences, FiniteSets, TLC

VARIABLES file, backups, now, fault, saves, last, web

vars == <<file, backups, now, fault, saves, last, web>>

(* ------------------------------ bounds -------------------------------- *)

\* longest batch / product list handed to add_products, save_products
MaxBatch == 2
\* most records the store file holds
MaxProducts == 3
\* last second of the wall clock in the general specification
MaxSec == 1
\* most consecutive save_database calls in the general specification
MaxSaves == 2
\* last second of the wall clock in the backup-rotation specification
MaxRotSec == 11
\* most consecutive save_database calls in the backup-rotation specification
MaxRotSaves == 12

\* most <a> elements of a listing page
MaxLinks == 2
\* largest limit handed to get_product_urls_from_page
MaxLimit == 2

\* most <img> elements of a product page
MaxImages == 2
\* segments after the root of a path handed to normalize_image_path
MaxSegs == 3
\* most title elements of a product page
MaxTitles == 2
\* most urls handed to download_images
MaxDownloads == 2
\* most scrape requests the web wrapper receives
MaxJobs == 2
\* most scrape requests where every thread is followed to its end
MaxFairJobs == 1

(* --------------------------- program constants ------------------------ *)

\* cleanup_old_backups(keep_count=10)
KeepCount == 10

(* ------------------------------ data ---------------------------------- *)

NoUrl == ""
Urls == {"a", "b"}
UrlValues == Urls \cup {NoUrl}

\* product.get('scrape_source') of a record without the key is None
NoSource == "None"
Sources == {"best_sellers", "custom"}

Record(url, source) == [url |-> url, source |-> source, added |-> FALSE]

\* records a caller may pass, not yet stamped by add_products: one without a
\* url, one url under two tags, one more url
InputRecords ==
    {Record(NoUrl, NoSource), Record("a", "best_sellers"), Record("a", NoSource),
     Record("b", "custom")}

SeqUpTo(S, n) == UNION {[1..k -> S] : k \in 0..n}

\* the members of a list
Members(seq) == {seq[i] : i \in 1..Len(seq)}

(* --------------------------- the store file --------------------------- *)

\* kinds: "absent" (no file), "empty" (0 bytes), "corrupt" (unparseable),
\* "scalar" (valid JSON that is neither an array nor an object),
\* "legacy" (flat array of records), "doc" (versioned document)
FileOf(kind, products, total) == [kind |-> kind, products |-> products, total |-> total]

AbsentFile == FileOf("absent", <<>>, 0)
EmptyFile == FileOf("empty", <<>>, 0)
CorruptFile == FileOf("corrupt", <<>>, 0)
ScalarFile == FileOf("scalar", <<>>, 0)
LegacyFile(products) == FileOf("legacy", products, 0)
DocFile(products, total) == FileOf("doc", products, total)

\* what the file system of the store does to the next read or write: "none"
\* (it works), "read" (permission to read the store file is denied), "write"
\* (permission to write is denied), "full" (no space is left: the file is
\* opened, hence truncated, and the write then fails)
Faults == {"none", "read", "write", "full"}

Disk == [file |-> file, backups |-> backups, now |-> now, fault |-> fault]

\* an in-memory document: meta is "full" (metadata with total_products),
\* "bare" (metadata == {}) or "absent" (no 'metadata' key)
Document(meta, products, total) == [meta |-> meta, products |-> products, total |-> total]

NoRet == "n/a"
NoExc == "none"

Result(d, ret, exc) == [disk |-> d, ret |-> ret, exc |-> exc]

Exists(f) == f.kind # "absent"

\* os.path.getsize(self.database_file) > 0
NonEmpty(f) == f.kind \notin {"absent", "empty"}

(* ------------------------- ProductDatabase ---------------------------- *)

\* with open(self.database_file, 'w') as f: json.dump(...): the exception it
\* raises, or "none"
WriteExc(d) ==
    IF d.fault = "write" THEN "PermissionError"
    ELSE IF d.fault = "full" THEN "OSError"
    ELSE NoExc

\* ... and the disk it leaves
WriteFile(d, content) ==
    IF d.fault = "write" THEN d
    ELSE IF d.fault = "full" THEN [d EXCEPT !.file = EmptyFile]
    ELSE [d EXCEPT !.file = content]

\* initialize_database: writes the empty versioned document; it has no handler,
\* so WriteExc(d) leaves it
InitializeDatabase(d) == WriteFile(d, DocFile(<<>>, 0))

\* cleanup_old_backups: sort by st_mtime, newest first, unlink [keep_count:]
CleanupOldBackups(bs) ==
    IF Len(bs) > KeepCount THEN SubSeq(bs, Len(bs) - KeepCount + 1, Len(bs)) ELSE bs

\* create_backup: shutil.copy2 onto products_backup_<second>.json replaces a
\* backup of the same name; the copy carries the store file's st_mtime, which
\* is later than that of every earlier version of the file
CreateBackup(d) ==
    IF ~Exists(d.file) THEN d
    ELSE IF d.fault # "none" THEN d   \* copy2 raises, `except Exception: return None`
    ELSE LET others == SelectSeq(d.backups, LAMBDA b : b.name # d.now)
             copied == Append(others, [name |-> d.now, kind |-> d.file.kind])
         IN [d EXCEPT !.backups = CleanupOldBackups(copied)]

\* open(self.database_file, 'r'): the exception it raises, or "none"
OpenExc(d) ==
    IF ~Exists(d.file) THEN "FileNotFoundError"
    ELSE IF d.fault = "read" THEN "PermissionError"
    ELSE NoExc

\* json.load(f): the exception it raises, or "none"
JsonLoadExc(f) == IF f.kind \in {"empty", "corrupt"} THEN "JSONDecodeError" ELSE NoExc

\* faulty variant of SaveDatabase: total_products is not recomputed before the write
SaveDatabaseStaleTotal(d, data) ==
    LET d1 == IF Exists(d.file) /\ NonEmpty(d.file) THEN CreateBackup(d) ELSE d
        written == DocFile(data.products, data.total)
    IN Result(WriteFile(d1, written), WriteExc(d1) = NoExc, NoExc)

\* faulty variant of SaveDatabase: no except clause, a failed write leaves the method
SaveDatabaseRaises(d, data) ==
    LET d1 == IF Exists(d.file) /\ NonEmpty(d.file) THEN CreateBackup(d) ELSE d
        written == DocFile(data.products, Len(data.products))
    IN Result(WriteFile(d1, written), IF WriteExc(d1) = NoExc THEN TRUE ELSE NoRet, WriteExc(d1))

\* save_database: True, or False when the write raised (`except Exception`)
SaveDatabase(d, data) ==
    LET d1 == IF Exists(d.file) /\ NonEmpty(d.file) THEN CreateBackup(d) ELSE d
        written == DocFile(data.products, Len(data.products))
    IN Result(WriteFile(d1, written), WriteExc(d1) = NoExc, NoExc)

\* faulty variant of TryLoad: the missing-file check is left out
TryLoadNoInit(d) ==
    LET f == d.file
    IN IF OpenExc(d) # NoExc
         THEN Result(d, NoRet, OpenExc(d))
       ELSE IF JsonLoadExc(f) # NoExc
         THEN Result(d, NoRet, JsonLoadExc(f))
       ELSE IF f.kind = "legacy"
         THEN LET converted == Document("full", f.products, Len(f.products))
              IN Result(SaveDatabase(d, converted).disk, converted, NoExc)
       ELSE IF f.kind = "scalar"
         THEN Result(d, NoRet, "TypeError")
       ELSE Result(d, Document("full", f.products, f.total), NoExc)

\* faulty variant of TryLoad: a converted legacy file is not saved
TryLoadNoRewrite(d) ==
    LET d1 == IF ~Exists(d.file) THEN InitializeDatabase(d) ELSE d
        f == d1.file
    IN IF ~Exists(d.file) /\ WriteExc(d) # NoExc
         THEN Result(d1, NoRet, WriteExc(d))
       ELSE IF OpenExc(d1) # NoExc
         THEN Result(d1, NoRet, OpenExc(d1))
       ELSE IF JsonLoadExc(f) # NoExc
         THEN Result(d1, NoRet, JsonLoadExc(f))
       ELSE IF f.kind = "legacy"
         THEN Result(d1, Document("full", f.products, Len(f.products)), NoExc)
       ELSE IF f.kind = "scalar"
         THEN Result(d1, NoRet, "TypeError")
       ELSE Result(d1, Document("full", f.products, f.total), NoExc)

\* load_database, the try block (lines 90-123): the exception is the one that
\* leaves the block
TryLoad(d) ==
    LET d1 == IF ~Exists(d.file) THEN InitializeDatabase(d) ELSE d
        f == d1.file
    IN IF ~Exists(d.file) /\ WriteExc(d) # NoExc
         THEN Result(d1, NoRet, WriteExc(d))
       ELSE IF OpenExc(d1) # NoExc
         THEN Result(d1, NoRet, OpenExc(d1))
       ELSE IF JsonLoadExc(f) # NoExc
         THEN Result(d1, NoRet, JsonLoadExc(f))
       ELSE IF f.kind = "legacy"
         THEN LET converted == Document("full", f.products, Len(f.products))
              IN Result(SaveDatabase(d1, converted).disk, converted, NoExc)
       ELSE IF f.kind = "scalar"
         THEN \* 'products' not in data / data['products'] = [] on a non-container
              Result(d1, NoRet, "TypeError")
       ELSE Result(d1, Document("full", f.products, f.total), NoExc)

\* faulty variant of LoadDatabase: the handler re-initializes before it takes the backup
LoadDatabaseInitFirst(d) ==
    LET r == TryLoad(d)
    IN IF r.exc = "JSONDecodeError"
         THEN IF WriteExc(r.disk) # NoExc
                THEN Result(InitializeDatabase(r.disk), NoRet, WriteExc(r.disk))
                ELSE Result(CreateBackup(InitializeDatabase(r.disk)), Document("full", <<>>, 0), NoExc)
       ELSE IF r.exc # NoExc
         THEN Result(r.disk, Document("bare", <<>>, 0), NoExc)
       ELSE r

\* faulty variant of LoadDatabase: no except clause, the exception leaves the method
LoadDatabaseNoHandlers(d) == TryLoad(d)

\* load_database with its two handlers; an exception raised inside the
\* JSONDecodeError handler is not caught by the handler next to it
RECURSIVE LoadDatabase(_)
LoadDatabase(d) ==
    LET r == TryLoad(d)
    IN IF r.exc = "JSONDecodeError"
         THEN LET b == CreateBackup(r.disk)
              IN IF WriteExc(b) # NoExc
                   THEN Result(InitializeDatabase(b), NoRet, WriteExc(b))
                   ELSE LoadDatabase(InitializeDatabase(b))
       ELSE IF r.exc # NoExc
         THEN Result(r.disk, Document("bare", <<>>, 0), NoExc)
       ELSE r

\* load_products
LoadProducts(d) ==
    LET r == LoadDatabase(d)
    IN IF r.exc # NoExc THEN Result(r.disk, NoRet, r.exc)
       ELSE Result(r.disk, r.ret.products, NoExc)

\* save_products
SaveProducts(d, products) ==
    LET r == LoadDatabase(d)
    IN IF r.exc # NoExc THEN Result(r.disk, NoRet, r.exc)
       ELSE SaveDatabase(r.disk, [r.ret EXCEPT !.products = products])

\* product['added_to_database'], product['database_version']
Stamp(p) == [p EXCEPT !.added = TRUE]

\* faulty variant of AddNew: an appended url is not added to existing_urls
RECURSIVE AddNewUntracked(_, _, _)
AddNewUntracked(products, existing, batch) ==
    IF batch = <<>> THEN products
    ELSE LET p == Head(batch)
         IN IF p.url # NoUrl /\ p.url \notin existing
              THEN AddNewUntracked(Append(products, Stamp(p)), existing, Tail(batch))
              ELSE AddNewUntracked(products, existing, Tail(batch))

\* the loop of add_products over new_products
RECURSIVE AddNew(_, _, _)
AddNew(products, existing, batch) ==
    IF batch = <<>> THEN products
    ELSE LET p == Head(batch)
         IN IF p.url # NoUrl /\ p.url \notin existing
              THEN AddNew(Append(products, Stamp(p)), existing \cup {p.url}, Tail(batch))
              ELSE AddNew(products, existing, Tail(batch))

\* faulty variant of ExistingUrls: the set is built from a key no record has
ExistingUrlsWrongKey(products) == {NoUrl : i \in 1..Len(products)}

\* {product.get('url', '') for product in database['products']}
ExistingUrls(products) == {products[i].url : i \in 1..Len(products)}

\* faulty variant of AddProducts: the document is saved whether or not a record was added
AddProductsAlwaysSaves(d, batch) ==
    IF batch = <<>> THEN Result(d, FALSE, NoExc)
    ELSE LET r == LoadDatabase(d)
         IN IF r.exc # NoExc THEN Result(r.disk, NoRet, r.exc)
            ELSE LET merged == AddNew(r.ret.products, ExistingUrls(r.ret.products), batch)
                 IN SaveDatabase(r.disk, [r.ret EXCEPT !.products = merged])

\* add_products
AddProducts(d, batch) ==
    IF batch = <<>> THEN Result(d, FALSE, NoExc)
    ELSE LET r == LoadDatabase(d)
         IN IF r.exc # NoExc THEN Result(r.disk, NoRet, r.exc)
            ELSE LET merged == AddNew(r.ret.products, ExistingUrls(r.ret.products), batch)
                     added_count == Len(merged) - Len(r.ret.products)
                 IN IF added_count > 0
                      THEN SaveDatabase(r.disk, [r.ret EXCEPT !.products = merged])
                      ELSE Result(r.disk, TRUE, NoExc)

\* `if scrape_source:` is false for None and for the empty string
Truthy(s) == s \notin {NoSource, ""}

\* faulty variant of GetExistingProducts: the source filter is not applied
GetExistingProductsUnscoped(d, scrape_source) ==
    LET r == LoadProducts(d)
    IN IF r.exc # NoExc THEN r
       ELSE Result(r.disk, ExistingUrls(r.ret) \ {NoUrl}, NoExc)

\* get_existing_products
GetExistingProducts(d, scrape_source) ==
    LET r == LoadProducts(d)
    IN IF r.exc # NoExc THEN r
       ELSE LET products == r.ret
                kept == IF Truthy(scrape_source)
                          THEN SelectSeq(products, LAMBDA p : p.source = scrape_source)
                          ELSE products
            IN Result(r.disk, ExistingUrls(kept) \ {NoUrl}, NoExc)

\* faulty variant of Pop: the last record is removed, whatever the index
PopLast(products, i) == SubSeq(products, 1, Len(products) - 1)

\* products.pop(product_index), 0-based, on a valid index
Pop(products, i) == SubSeq(products, 1, i) \o SubSeq(products, i + 2, Len(products))

\* the pair delete_product returns: (True, deleted_product) or (False, None),
\* None being the empty sequence
Deleted(p) == [ok |-> TRUE, deleted |-> <<p>>]
NotDeleted == [ok |-> FALSE, deleted |-> <<>>]

\* delete_product: the whole body is inside try / except Exception
DeleteProduct(d, product_index) ==
    LET r == LoadDatabase(d)
    IN IF r.exc # NoExc THEN Result(r.disk, NotDeleted, NoExc)
       ELSE LET products == r.ret.products
            IN IF 0 <= product_index /\ product_index < Len(products)
                 THEN LET deleted_product == products[product_index + 1]
                          s == SaveDatabase(r.disk, [r.ret EXCEPT !.products = Pop(products, product_index)])
                      IN IF s.ret = TRUE
                           THEN Result(s.disk, Deleted(deleted_product), NoExc)
                           ELSE Result(s.disk, NotDeleted, NoExc)
                 ELSE Result(r.disk, NotDeleted, NoExc)

\* len(urls) - len(set(urls)) over the non-empty urls
DuplicateUrls(products) ==
    LET urls == SelectSeq(products, LAMBDA p : p.url # NoUrl)
    IN Len(urls) - Cardinality(ExistingUrls(urls))

\* faulty variant of GetDatabaseHealth: the report is computed, then the document is saved
GetDatabaseHealthSaves(d) ==
    LET r == LoadDatabase(d)
    IN IF r.exc # NoExc \/ ~Exists(r.disk.file)
         THEN Result(r.disk, [status |-> "error", total_products |-> 0, duplicate_urls |-> 0], NoExc)
       ELSE Result(SaveDatabase(r.disk, r.ret).disk,
                   [status |-> "healthy", total_products |-> Len(r.ret.products),
                    duplicate_urls |-> DuplicateUrls(r.ret.products)], NoExc)

\* get_database_health: the report's status and its url statistics (titles and
\* product folders are not part of the record abstraction)
GetDatabaseHealth(d) ==
    LET r == LoadDatabase(d)
    IN IF r.exc # NoExc \/ ~Exists(r.disk.file)   \* os.path.getsize raises on a missing file
         THEN Result(r.disk, [status |-> "error", total_products |-> 0, duplicate_urls |-> 0], NoExc)
       ELSE LET products == r.ret.products
                missing_urls == Len(SelectSeq(products, LAMBDA p : p.url = NoUrl))
                duplicate_urls == DuplicateUrls(products)
                status == IF missing_urls > 0 THEN "issues_found"
                          ELSE IF duplicate_urls > 0 THEN "warnings_found"
                          ELSE "healthy"
            IN Result(r.disk, [status |-> status, total_products |-> Len(products),
                               duplicate_urls |-> duplicate_urls], NoExc)

(* ------------------- CleanProductScraper: the batch ------------------- *)

\* mode names the callers pass to scrape_products
Modes == {"Best Sellers", "Custom"}

\* scrape_products, "Determine scrape source"
ScrapeSource(mode_name) ==
    CASE mode_name = "Best Sellers" -> "best_sellers"
      [] mode_name = "Featured" -> "featured"
      [] mode_name = "Custom" -> "custom"
      [] OTHER -> "unknown"

\* time.sleep(1) between two urls: the clock passes the second a backup was
\* named after
Sleep(d) ==
    IF \E i \in 1..Len(d.backups) : d.backups[i].name = d.now
      THEN [d EXCEPT !.now = @ + 1]
      ELSE d

\* Body applied to the value of v, v being evaluated once
With(v, Body(_)) == CHOOSE out \in {Body(x) : x \in {v}} : TRUE

\* process_single_product as far as the store is concerned: `usable` holds the
\* urls whose page yields a record, `broken` those whose product_data.json
\* cannot be written (save_product_data opens it outside any try); the result
\* is the record (a sequence of one) or None (the empty sequence)
ProcessSingleProduct(d, url, scrape_source, usable, broken) ==
    With(GetExistingProducts(d, IF scrape_source = "custom" THEN "custom" ELSE NoSource),
         LAMBDA e :
            IF e.exc # NoExc THEN Result(e.disk, NoRet, e.exc)
            ELSE IF url \in e.ret THEN Result(e.disk, <<>>, NoExc)
            ELSE IF url \notin usable THEN Result(e.disk, <<>>, NoExc)
            ELSE IF url \in broken THEN Result(e.disk, NoRet, "OSError")
            ELSE Result(e.disk, <<Record(url, scrape_source)>>, NoExc))

\* faulty variant of Counted: a url that gives no record is not counted
CountedSuccessOnly(progress, product) ==
    LET before == IF progress = <<>> THEN [successful |-> 0, failed |-> 0]
                  ELSE progress[Len(progress)]
    IN Append(progress,
              IF product # <<>> THEN [before EXCEPT !.successful = @ + 1] ELSE before)

\* the counters of scrape_products after a url
Counted(progress, product) ==
    LET before == IF progress = <<>> THEN [successful |-> 0, failed |-> 0]
                  ELSE progress[Len(progress)]
    IN Append(progress,
              IF product # <<>> THEN [before EXCEPT !.successful = @ + 1]
              ELSE [before EXCEPT !.failed = @ + 1])

\* the loop of scrape_products: nothing in it catches an exception; `run` is
\* all_products and the counters after each url so far
RECURSIVE ScrapeLoop(_, _, _, _, _, _)
ScrapeLoop(d, urls, scrape_source, usable, broken, run) ==
    IF urls = <<>> THEN Result(d, run, NoExc)
    ELSE With(ProcessSingleProduct(d, Head(urls), scrape_source, usable, broken),
              LAMBDA r :
                 IF r.exc # NoExc THEN Result(r.disk, NoRet, r.exc)
                 ELSE ScrapeLoop(Sleep(r.disk), Tail(urls), scrape_source, usable, broken,
                                 [all_products |-> run.all_products \o r.ret,
                                  progress |-> Counted(run.progress, r.ret)]))

\* existing_urls of add_products: the urls of the document load_database gives
LoadedUrls(d) ==
    LET r == LoadDatabase(d)
    IN IF r.exc # NoExc THEN {} ELSE ExistingUrls(r.ret.products)

\* the records of a batch after add_products: the records it appended are the
\* caller's own, which now carry added_to_database
RECURSIVE StampedBatch(_, _)
StampedBatch(existing, batch) ==
    IF batch = <<>> THEN <<>>
    ELSE LET p == Head(batch)
         IN IF p.url # NoUrl /\ p.url \notin existing
              THEN <<Stamp(p)>> \o StampedBatch(existing \cup {p.url}, Tail(batch))
              ELSE <<p>> \o StampedBatch(existing, Tail(batch))

\* scrape_products with what it counts: the return value of add_products is
\* not looked at
ScrapeProductsRun(d, urls, mode_name, usable, broken) ==
    IF urls = <<>> THEN Result(d, [all_products |-> <<>>, progress |-> <<>>], NoExc)
    ELSE With(ScrapeLoop(d, urls, ScrapeSource(mode_name), usable, broken,
                         [all_products |-> <<>>, progress |-> <<>>]),
              LAMBDA l :
                 IF l.exc # NoExc \/ l.ret.all_products = <<>> THEN l
                 ELSE With(AddProducts(l.disk, l.ret.all_products),
                           LAMBDA a :
                              IF a.exc # NoExc THEN Result(a.disk, NoRet, a.exc)
                              ELSE Result(a.disk,
                                          [l.ret EXCEPT !.all_products =
                                              StampedBatch(LoadedUrls(l.disk), @)],
                                          NoExc)))

\* scrape_products, product folders being writable: what it returns
ScrapeProducts(d, urls, mode_name, usable) ==
    With(ScrapeProductsRun(d, urls, mode_name, usable, {}),
         LAMBDA r : IF r.exc # NoExc THEN r ELSE Result(r.disk, r.ret.all_products, NoExc))

(* ---------------- ProductScraperCore: the listing page ---------------- *)

\* A url is the form it is written in ("abs": scheme and host; "root": it
\* starts with "/"; "rel": neither), its host (abs only), its path as the
\* sequence of its segments, each followed by "/", and whether a query string
\* (?add-to-cart=...) follows.
Url(form, host, path, query) == [form |-> form, host |-> host, path |-> path, query |-> query]

\* the domains of CleanProductScraper.sites
MainDomain == "ineedhemp.com"
Domains == {"ineedhemp.com", "nicedreamzwholesale.com", "tribeseedbank.com"}

\* link.get('href') of an element without the attribute
NoHref == Url("none", "", <<>>, FALSE)

\* '/product/' in url
HasProductPath(u) ==
    \E i \in 1..Len(u.path) : u.path[i] = "product" /\ (i > 1 \/ u.form \in {"abs", "root"})

\* url.endswith('/product/')
EndsWithProduct(u) ==
    /\ ~u.query
    /\ u.path # <<>>
    /\ u.path[Len(u.path)] = "product"
    /\ (Len(u.path) > 1 \/ u.form \in {"abs", "root"})

\* path segments in which one of 'cart', 'checkout', 'account' occurs
TermSegments == {"cart", "cart-widget", "checkout", "my-account"}

\* any(term in url.lower() for term in ['cart', 'checkout', 'account']); the
\* query strings of the model are ?add-to-cart=<id>
HasExcludedTerm(u) == u.query \/ \E i \in 1..Len(u.path) : u.path[i] \in TermSegments

\* clean_product_url on a non-empty href: the absolute url is built on the
\* literal 'https://ineedhemp.com', then parameters and fragment are cut
CleanProductUrl(u) ==
    IF u.form = "abs" THEN [u EXCEPT !.query = FALSE]
    ELSE Url("abs", MainDomain, u.path, FALSE)

\* faulty variant of IsValidProductUrl: the cart/checkout/account test is left out
IsValidProductUrlAnyTerm(u) ==
    /\ HasProductPath(u)
    /\ u.host = MainDomain
    /\ ~EndsWithProduct(u)

\* is_valid_product_url
IsValidProductUrl(u) ==
    /\ HasProductPath(u)
    /\ u.host = MainDomain
    /\ ~EndsWithProduct(u)
    /\ ~HasExcludedTerm(u)

\* product_selectors has seven entries, tried in this order; the last one is
\* a[href*="/product/"]
SelectorCount == 7

\* an <a> element of the page: its href and the structural selectors (1..6)
\* that match it
Element(href, sels) == [href |-> href, sels |-> sels]

\* soup.select(selector): the matching elements in document order
Select(page, selector) ==
    SelectSeq(page, LAMBDA el :
        IF selector = SelectorCount
          THEN el.href # NoHref /\ HasProductPath(el.href)
          ELSE selector \in el.sels)

\* the optional limit: None is <<>>, an integer n is <<n>>
NoLimit == <<>>
LimitSet(limit) == limit # NoLimit /\ limit[1] # 0   \* `if limit`

\* links[:limit] for limit >= 0
Take(links, n) == SubSeq(links, 1, IF n < Len(links) THEN n ELSE Len(links))

\* the inner loop over page_links, with its break
RECURSIVE CollectLinks(_, _, _)
CollectLinks(page_links, links, limit) ==
    IF page_links = <<>> THEN links
    ELSE LET href == Head(page_links).href
             cleaned == CleanProductUrl(href)
         IN IF href # NoHref /\ IsValidProductUrl(cleaned)
                 /\ \A i \in 1..Len(links) : links[i] # cleaned
              THEN IF LimitSet(limit) /\ Len(links) + 1 >= limit[1]
                     THEN Append(links, cleaned)
                     ELSE CollectLinks(Tail(page_links), Append(links, cleaned), limit)
              ELSE CollectLinks(Tail(page_links), links, limit)

\* faulty variant of Cascade: the links of every matching selector are collected
CascadeUnion(page, selector, limit) ==
    CollectLinks(SelectSeq(page, LAMBDA el :
                    \E k \in selector..SelectorCount :
                        \E i \in 1..Len(Select(page, k)) : Select(page, k)[i] = el),
                 <<>>, limit)

\* the loop over product_selectors, from `selector` on
RECURSIVE Cascade(_, _, _)
Cascade(page, selector, limit) ==
    IF selector > SelectorCount THEN <<>>
    ELSE LET page_links == Select(page, selector)
             links == IF page_links # <<>> THEN CollectLinks(page_links, <<>>, limit) ELSE <<>>
         IN IF links # <<>> THEN links ELSE Cascade(page, selector + 1, limit)

\* get_product_urls_from_page: `fetched` is false when requests.get or
\* raise_for_status raises
GetProductUrlsFromPage(page, limit, fetched) ==
    IF ~fetched THEN <<>>
    ELSE LET links == Cascade(page, 1, limit)
         IN IF LimitSet(limit) THEN Take(links, limit[1]) ELSE links

(* ------------- CleanProductScraper: the listing of a site ------------- *)

\* self.sites: the registry; base_url is 'https://' + domain, and the listing
\* paths are the same for the three sites
Sites ==
    [ineedhemp |-> [domain |-> "ineedhemp.com"],
     nicedreamz |-> [domain |-> "nicedreamzwholesale.com"],
     tribeseed |-> [domain |-> "tribeseedbank.com"]]

SiteKeys == DOMAIN Sites

\* `limit or 20` for the featured listing
FeaturedLimit == 20

\* the url string of the store that a listed url is
StoreUrl(u) ==
    IF u = Url("abs", MainDomain, <<"product", "widget">>, FALSE) THEN "a"
    ELSE IF u = Url("abs", MainDomain, <<"product", "gadget">>, FALSE) THEN "b"
    ELSE "other"

\* [url for url in links if url not in existing_products]
NewLinks(links, existing_products) ==
    SelectSeq(links, LAMBDA u : StoreUrl(u) \notin existing_products)

\* get_product_urls: `page` is what base_url + listing path serves, `fetched`
\* whether the request succeeded
GetProductUrls(d, category, limit, site, page, fetched) ==
    IF site \notin SiteKeys THEN Result(d, <<>>, NoExc)
    ELSE With(GetExistingProducts(d, category),
              LAMBDA e :
                 IF e.exc # NoExc THEN Result(e.disk, NoRet, e.exc)
                 ELSE IF category = "best_sellers"
                   THEN Result(e.disk,
                               NewLinks(GetProductUrlsFromPage(page, limit, fetched), e.ret),
                               NoExc)
                 ELSE IF category = "featured"
                   THEN Result(e.disk,
                               NewLinks(GetProductUrlsFromPage(page,
                                            IF LimitSet(limit) THEN limit ELSE <<FeaturedLimit>>,
                                            fetched), e.ret),
                               NoExc)
                 ELSE Result(e.disk, <<>>, NoExc))

(* -------------- EnhancedImageProcessor: the image gallery ------------- *)

\* An image url on the main domain: the file name without its size suffix,
\* the suffix ("none", "dash" for -WxH, "under" for _WxH, "scaled" for
\* -scaled), the side W = H of the suffix, and whether a query string follows.
ImageUrl(name, suffix, side, query) ==
    [name |-> name, suffix |-> suffix, side |-> side, query |-> query]

\* clean_image_url: the query parameters are removed
CleanImageUrl(u) == [u EXCEPT !.query = FALSE]

\* file names in which one of exclude_terms occurs
ExcludedImageNames == {"logo"}

\* the sides of '-50x50', '-100x100', '-75x75', '-25x25', '-150x150'
SmallSides == {25, 50, 75, 100, 150}

\* is_valid_image_url on a .jpg url of the main domain
IsValidImageUrl(u) ==
    /\ u.name \notin ExcludedImageNames
    /\ ~(u.suffix = "dash" /\ u.side \in SmallSides)

\* get_image_base_name: the three size patterns are removed from the file name
GetImageBaseName(u) == u.name

\* `return 999999` for a url without -WxH
UnsizedArea == 999999

\* extract_image_dimensions: only -(\d+)x(\d+) is looked for
ExtractImageDimensions(u) == IF u.suffix = "dash" THEN u.side * u.side ELSE UnsizedArea

\* an ancestor element: its tag, its classes and its id
Ancestor(tag, classes, id) == [tag |-> tag, classes |-> classes, id |-> id]

\* excluded_containers without '.' and '#'
ExcludedContainers ==
    {"related-products", "upsells", "cross-sells", "you-may-also-like",
     "recommended-products", "similar-products", "recently-viewed",
     "product-recommendations", "woocommerce-tabs", "reviews", "related", "aside",
     "sidebar", "footer"}

\* `excluded_clean in parent_id` is a substring test: the ids of the model and
\* the entries that occur in them
EntriesInId(id) ==
    IF id = "sidebar-left" THEN {"sidebar"}
    ELSE IF id = "related" THEN {"related"}
    ELSE {}

\* is_in_excluded_container: ancestors from the parent up; classes and ids are
\* compared, the tag name is not
IsInExcludedContainer(img) ==
    \E i \in 1..Len(img.ancestors) :
        \/ img.ancestors[i].classes \cap ExcludedContainers # {}
        \/ EntriesInId(img.ancestors[i].id) # {}

\* the first attribute value, in the order data-large_image, data-zoom-image,
\* src, data-src, data-original, that is a valid image url; <<>> when none is
RECURSIVE FoundUrl(_)
FoundUrl(attrs) ==
    IF attrs = <<>> THEN <<>>
    ELSE IF IsValidImageUrl(CleanImageUrl(Head(attrs))) THEN <<CleanImageUrl(Head(attrs))>>
    ELSE FoundUrl(Tail(attrs))

\* replace_with_larger_image: the state is the list and seen_urls
RECURSIVE ReplaceWithLargerImage(_, _, _)
ReplaceWithLargerImage(new_url, st, i) ==
    IF i > Len(st.images) THEN st
    ELSE IF GetImageBaseName(new_url) = GetImageBaseName(st.images[i])
      THEN IF ExtractImageDimensions(new_url) > ExtractImageDimensions(st.images[i])
             THEN [st EXCEPT !.images[i] = new_url,
                             !.seen_urls = (@ \ {st.images[i]}) \cup {new_url}]
             ELSE st
    ELSE ReplaceWithLargerImage(new_url, st, i + 1)

\* the body of the loops of extract_image_urls for one matched element
MeetImage(st, img) ==
    IF IsInExcludedContainer(img) THEN st
    ELSE LET found == FoundUrl(img.attrs)
         IN IF found = <<>> THEN st
            ELSE IF found[1] \in st.seen_urls THEN st
            ELSE IF GetImageBaseName(found[1]) \in st.seen_base_names
              THEN ReplaceWithLargerImage(found[1], st, 1)
            ELSE [images |-> Append(st.images, found[1]),
                  seen_urls |-> st.seen_urls \cup {found[1]},
                  seen_base_names |-> st.seen_base_names \cup {GetImageBaseName(found[1])}]

RECURSIVE MeetAll(_, _)
MeetAll(st, imgs) == IF imgs = <<>> THEN st ELSE MeetAll(MeetImage(st, Head(imgs)), Tail(imgs))

\* main_product_selectors has nine entries
GallerySelectorCount == 9

\* soup.select(selector) for a gallery selector
SelectImages(page, selector) == SelectSeq(page, LAMBDA img : selector \in img.sels)

\* the elements in the order the two loops meet them
RECURSIVE MetFrom(_, _)
MetFrom(page, selector) ==
    IF selector > GallerySelectorCount THEN <<>>
    ELSE SelectImages(page, selector) \o MetFrom(page, selector + 1)

\* extract_image_urls
ExtractImageUrls(page) ==
    MeetAll([images |-> <<>>, seen_urls |-> {}, seen_base_names |-> {}], MetFrom(page, 1)).images

(* ---------------- ProductScraperCore: the product title --------------- *)

\* A text is the sequence of its words, a run of whitespace being the word
\* " "; its length is the sum of the lengths of its words.
RECURSIVE TextLen(_)
TextLen(text) == IF text = <<>> THEN 0 ELSE Len(Head(text)) + TextLen(Tail(text))

\* str.lower of a word
LowerWord(w) ==
    CASE w = "Hemp" -> "hemp"
      [] w = "Error" -> "error"
      [] w = "Page" -> "page"
      [] w = "Not Found" -> "not found"
      [] OTHER -> w

\* title.lower()
Lower(text) == [i \in 1..Len(text) |-> LowerWord(text[i])]

\* str.strip
RECURSIVE Strip(_)
Strip(text) ==
    IF text = <<>> THEN text
    ELSE IF Head(text) = " " THEN Strip(Tail(text))
    ELSE IF text[Len(text)] = " " THEN Strip(SubSeq(text, 1, Len(text) - 1))
    ELSE text

\* the words of the error-page blocklist, each as a text
ErrorWords == {<<"error">>, <<"404">>, <<"not found">>, <<"page", " ", "not found">>}

\* word in text, for texts whose words do not run into one another
WordIn(word, text) ==
    \E i \in 1..Len(text) :
        i + Len(word) - 1 <= Len(text) /\ SubSeq(text, i, i + Len(word) - 1) = word

\* an element of a product page: tag, classes, whether an ancestor has the
\* class page-title, and the text get_text() gives
TitleElement(tag, classes, in_page_title, text) ==
    [tag |-> tag, classes |-> classes, in_page_title |-> in_page_title, text |-> text]

\* the selectors of extract_title, in order
TitleSelectorCount == 6

\* the element matches the selector
MatchesTitleSelector(el, selector) ==
    CASE selector = 1 -> el.tag = "h1" /\ "product_title" \in el.classes
      [] selector = 2 -> el.tag = "h1" /\ "entry-title" \in el.classes
      [] selector = 3 -> el.tag = "h1" /\ "product-title" \in el.classes
      [] selector = 4 -> "product_title" \in el.classes
      [] selector = 5 -> el.tag = "h1"
      [] selector = 6 -> el.tag = "h1" /\ el.in_page_title

\* soup.select_one(selector): the first matching element in document order
\* (a sequence of one), or None (the empty sequence)
SelectOne(soup, selector) ==
    LET matching == SelectSeq(soup, LAMBDA el : MatchesTitleSelector(el, selector))
    IN IF matching = <<>> THEN <<>> ELSE <<Head(matching)>>

\* the test of extract_title on the stripped text
AcceptedTitle(title) ==
    /\ title # <<>>
    /\ TextLen(title) > 2
    /\ ~\E word \in ErrorWords : WordIn(word, Lower(title))

\* faulty variant of TitleFrom: the first selector that matches an element
\* decides
RECURSIVE TitleFromFirstMatch(_, _)
TitleFromFirstMatch(soup, selector) ==
    IF selector > TitleSelectorCount THEN <<>>
    ELSE LET element == SelectOne(soup, selector)
         IN IF element # <<>>
              THEN IF AcceptedTitle(Strip(element[1].text))
                     THEN <<Strip(element[1].text)>>
                     ELSE <<>>
              ELSE TitleFromFirstMatch(soup, selector + 1)

\* the loop of extract_title from a selector on: the title (a sequence of
\* one) or None (the empty sequence)
RECURSIVE TitleFrom(_, _)
TitleFrom(soup, selector) ==
    IF selector > TitleSelectorCount THEN <<>>
    ELSE LET element == SelectOne(soup, selector)
         IN IF element # <<>> /\ AcceptedTitle(Strip(element[1].text))
              THEN <<Strip(element[1].text)>>
              ELSE TitleFrom(soup, selector + 1)

\* extract_title
ExtractTitle(soup) == TitleFrom(soup, 1)

\* extract_product_data: `fetched` is false when scrape_product_page returned
\* None; the record (a sequence of one) or None (the empty sequence)
ExtractProductData(soup, url, fetched) ==
    IF ~fetched THEN <<>>
    ELSE LET title == ExtractTitle(soup)
         IN IF title = <<>> \/ TextLen(title[1]) < 3 THEN <<>>
            ELSE <<[url |-> url, title |-> title[1]]>>

\* the urls of a site whose page process_single_product gets a record from
UsableUrls(site) ==
    {url \in DOMAIN site : ExtractProductData(site[url].soup, url, site[url].fetched) # <<>>}

(* ----------------------- image paths (path_utils) --------------------- *)

\* a path string is the sequence of its '/'-separated segments, as
\* str.split('/') gives them: '' is <<"">>, '/a' is <<"", "a">>, 'a/' is
\* <<"a", "">>; string concatenation is \o up to the joined segment, and each
\* prefix the code adds ends with '/'

\* None
NoPath == <<>>

\* '/var/www/tools'
CanonicalRoot == <<"", "var", "www", "tools">>

\* '/Users/matthewmacosko'
MacRoot == <<"", "Users", "matthewmacosko">>

\* path_str.startswith(prefix + '/')
StartsWith(p, prefix) == Len(p) > Len(prefix) /\ SubSeq(p, 1, Len(prefix)) = prefix

\* s in parts
InParts(p, s) == \E i \in 1..Len(p) : p[i] = s

\* parts.index(s)
Index(p, s) == CHOOSE i \in 1..Len(p) : p[i] = s /\ \A j \in 1..(i - 1) : p[j] # s

\* the segments at which '/data/products/' occurs in the string, from segment lo on
ProductsAt(p, lo) ==
    {i \in lo..(Len(p) - 2) : i >= 2 /\ p[i] = "data" /\ p[i + 1] = "products"}

Min(S) == CHOOSE i \in S : \A j \in S : i <= j

\* path_str.split('/data/products/')[1]
AfterProducts(p) ==
    LET first == Min(ProductsAt(p, 2))
        next  == ProductsAt(p, first + 3)
    IN SubSeq(p, first + 2, IF next = {} THEN Len(p) ELSE Min(next) - 1)

\* faulty variant of normalize_image_path: the macOS branch returns the parts
\* from 'data' on without the canonical root
NormalizeImagePathRelativeMac(image_path) ==
    IF image_path = NoPath \/ image_path = <<"">> THEN NoPath
    ELSE IF StartsWith(image_path, CanonicalRoot) THEN image_path
    ELSE IF /\ StartsWith(image_path, MacRoot)
            /\ InParts(image_path, "data") /\ InParts(image_path, "products")
         THEN SubSeq(image_path, Index(image_path, "data"), Len(image_path))
    ELSE IF image_path[1] # ""
         THEN IF StartsWith(image_path, <<"data">>) THEN CanonicalRoot \o image_path
              ELSE IF StartsWith(image_path, <<"products">>)
                   THEN CanonicalRoot \o <<"data">> \o image_path
              ELSE CanonicalRoot \o <<"data", "products">> \o image_path
    ELSE IF ProductsAt(image_path, 2) # {}
         THEN CanonicalRoot \o <<"data", "products">> \o AfterProducts(image_path)
    ELSE image_path

\* normalize_image_path
NormalizeImagePath(image_path) ==
    IF image_path = NoPath \/ image_path = <<"">> THEN NoPath
    ELSE IF StartsWith(image_path, CanonicalRoot) THEN image_path
    ELSE IF /\ StartsWith(image_path, MacRoot)
            /\ InParts(image_path, "data") /\ InParts(image_path, "products")
         THEN CanonicalRoot \o SubSeq(image_path, Index(image_path, "data"), Len(image_path))
    ELSE IF image_path[1] # ""
         THEN IF StartsWith(image_path, <<"data">>) THEN CanonicalRoot \o image_path
              ELSE IF StartsWith(image_path, <<"products">>)
                   THEN CanonicalRoot \o <<"data">> \o image_path
              ELSE CanonicalRoot \o <<"data", "products">> \o image_path
    ELSE IF ProductsAt(image_path, 2) # {}
         THEN CanonicalRoot \o <<"data", "products">> \o AfterProducts(image_path)
    ELSE image_path

\* load_products_data, the local_images of one product: a path whose
\* normalization is falsy is left out
RECURSIVE NormalizeLocalImages(_)
NormalizeLocalImages(local_images) ==
    IF local_images = <<>> THEN <<>>
    ELSE LET normalized_path == NormalizeImagePath(Head(local_images))
         IN (IF normalized_path # NoPath THEN <<normalized_path>> ELSE <<>>)
            \o NormalizeLocalImages(Tail(local_images))

\* load_products_data: the products of the store, and the normalized
\* local_images of a loaded product
LoadProductsData(d, local_images) ==
    LET r == LoadProducts(d)
    IN IF r.exc # NoExc THEN r
       ELSE Result(r.disk,
                   [products |-> r.ret, local_images |-> NormalizeLocalImages(local_images)],
                   NoExc)

(* ------------------------- downloading images ------------------------- *)

\* len(response.content) below which download_images skips a payload
TinyBytes == 2000

\* the same for basic_download_images
BasicTinyBytes == 1000

\* an image url as far as the file name goes: what follows its last '.', and
\* whether a query string follows that
DownloadUrl(ext, query) == [ext |-> ext, query |-> query]

\* str.lower of an extension
LowerExt(ext) == IF ext = "PNG" THEN "png" ELSE ext

\* the extension of the file name: that of the url when the lower-cased url
\* ends with an image extension, 'jpg' otherwise
FileExt(url) ==
    IF ~url.query /\ LowerExt(url.ext) \in {"png", "jpg", "jpeg", "webp", "gif"}
      THEN LowerExt(url.ext) ELSE "jpg"

\* f"image_{i+1}.{ext}" for the i-th url, counted from 1; the path of a file
\* is its name, all files being in images_folder
FileName(i, url) == <<i, FileExt(url)>>

\* what requests.get and raise_for_status give for a url: an exception, or a
\* payload of `size` bytes
Failed == [ok |-> FALSE, size |-> 0]

Payload(size) == [ok |-> TRUE, size |-> size]

\* the folder before the call: no folder is the empty folder; sizes[n] is the
\* file of n bytes
FolderState(files) ==
    [downloaded |-> <<>>,
     existing_files |-> DOMAIN files,
     existing_sizes |-> [n \in {files[f] : f \in DOMAIN files} |->
                            CHOOSE f \in DOMAIN files : files[f] = n],
     fetched |-> <<>>,
     written |-> {}]

\* one turn of the loop of download_images: `writable` is false when open()
\* for writing raises
DownloadOne(st, i, item, writable) ==
    LET filename == FileName(i, item.url)
        asked == [st EXCEPT !.fetched = Append(@, i)]
    IN IF filename \in st.existing_files
         THEN [st EXCEPT !.downloaded = Append(@, filename)]
       ELSE IF item.response = Failed THEN asked
       ELSE IF item.response.size < TinyBytes THEN asked
       ELSE IF item.response.size \in DOMAIN st.existing_sizes
         THEN [asked EXCEPT !.downloaded = Append(@, st.existing_sizes[item.response.size])]
       ELSE IF ~writable THEN asked
       ELSE [asked EXCEPT !.downloaded = Append(@, filename),
                          !.existing_files = @ \cup {filename},
                          !.existing_sizes = [n \in DOMAIN @ \cup {item.response.size} |->
                                                 IF n = item.response.size THEN filename ELSE @[n]],
                          !.written = @ \cup {filename}]

\* faulty variant of DownloadFrom: nothing catches a failed fetch, which ends
\* the loop
RECURSIVE DownloadFromAborts(_, _, _, _)
DownloadFromAborts(st, i, items, writable) ==
    IF i > Len(items) THEN st
    ELSE IF FileName(i, items[i].url) \notin st.existing_files /\ items[i].response = Failed
      THEN [st EXCEPT !.fetched = Append(@, i)]
    ELSE DownloadFromAborts(DownloadOne(st, i, items[i], writable), i + 1, items, writable)

\* the loop of download_images from the i-th url on
RECURSIVE DownloadFrom(_, _, _, _)
DownloadFrom(st, i, items, writable) ==
    IF i > Len(items) THEN st
    ELSE DownloadFrom(DownloadOne(st, i, items[i], writable), i + 1, items, writable)

\* EnhancedImageProcessor.download_images: the paths returned, the urls
\* requested and the files written
DownloadImages(items, files, writable) == DownloadFrom(FolderState(files), 1, items, writable)

\* one turn of the loop of basic_download_images
BasicDownloadOne(st, i, item, writable) ==
    LET filename == FileName(i, item.url)
        asked == [st EXCEPT !.fetched = Append(@, i)]
    IN IF filename \in st.existing_files
         THEN [st EXCEPT !.downloaded = Append(@, filename)]
       ELSE IF item.response = Failed THEN asked
       ELSE IF item.response.size < BasicTinyBytes THEN asked
       ELSE IF ~writable THEN asked
       ELSE [asked EXCEPT !.downloaded = Append(@, filename),
                          !.written = @ \cup {filename}]

RECURSIVE BasicDownloadFrom(_, _, _, _)
BasicDownloadFrom(st, i, items, writable) ==
    IF i > Len(items) THEN st
    ELSE BasicDownloadFrom(BasicDownloadOne(st, i, items[i], writable), i + 1, items, writable)

\* CleanProductScraper.basic_download_images
BasicDownloadImages(items, files, writable) ==
    BasicDownloadFrom(FolderState(files), 1, items, writable)

\* len(file) a downloaded image must exceed to be kept by validate_downloaded_images
ValidBytes == 1000

\* os.path.getsize of a path after download_images: a file of the folder, or
\* the payload written for the i-th url
SizeOnDisk(p, items, files) ==
    IF p \in DOMAIN files THEN files[p] ELSE items[p[1]].response.size

\* validate_downloaded_images: the paths whose file holds more than 1000
\* bytes, in order; the others are removed from the folder
ValidateDownloadedImages(downloaded, items, files) ==
    SelectSeq(downloaded, LAMBDA p : SizeOnDisk(p, items, files) > ValidBytes)

\* CleanProductScraper.download_images with the enhanced processor: what
\* process_single_product stores as local_images and image_count
ScraperDownloadImages(items, files, writable) ==
    LET st == DownloadImages(items, files, writable)
        local_images == ValidateDownloadedImages(st.downloaded, items, files)
    IN [local_images |-> local_images,
        image_count |-> Len(local_images),
        folder |-> {p \in DOMAIN files \cup st.written :
                       p \in Members(st.downloaded) => SizeOnDisk(p, items, files) > ValidBytes}]

(* ------------------- flask_wrapper: the scrape jobs ------------------- *)

\* scraping_status['start_time'] is None
NoTime == <<>>

\* a status dict: `id` is the identity of the dict object, which a whole
\* replacement changes and an assignment to one key does not
Status(id, active, progress, message, start_time, expected_duration) ==
    [id |-> id, active |-> active, progress |-> progress, message |-> message,
     start_time |-> start_time, expected_duration |-> expected_duration]

\* the module-level scraping_status
Ready == Status(0, FALSE, 0, <<"Ready">>, NoTime, 0)

\* the state of the wrapper before WebAppWrapper is constructed
NoWeb ==
    [scraper_available |-> TRUE, current_products |-> <<>>, scraping_status |-> Ready,
     dicts |-> 1, workers |-> <<>>]

ScraperTypes == {"best_sellers", "featured", "custom"}

\* expected_duration of the three request handlers
ExpectedDuration(scraper_type) ==
    CASE scraper_type = "best_sellers" -> 90
      [] scraper_type = "featured" -> 120
      [] scraper_type = "custom" -> 30

\* the limit run_scraper passes to get_product_urls
JobLimit(scraper_type) == IF scraper_type = "best_sellers" THEN <<15>> ELSE <<20>>

\* the mode name run_scraper passes to scrape_products, up to the site name
JobMode(scraper_type) ==
    CASE scraper_type = "best_sellers" -> "Best Sellers"
      [] scraper_type = "featured" -> "Featured"
      [] scraper_type = "custom" -> "Custom"

\* scrape_custom_url on a url string: one of no supported site gives [], any
\* other is returned after the custom urls of the store were read
ScrapeCustomUrl(d, url) ==
    IF url \notin Urls THEN Result(d, <<>>, NoExc)
    ELSE With(GetExistingProducts(d, "custom"),
              LAMBDA e :
                 IF e.exc # NoExc THEN Result(e.disk, NoRet, e.exc)
                 ELSE Result(e.disk, <<url>>, NoExc))

\* the url strings of a listing
RECURSIVE StoreUrls(_)
StoreUrls(links) ==
    IF links = <<>> THEN <<>> ELSE <<StoreUrl(Head(links))>> \o StoreUrls(Tail(links))

\* a thread of run_scraper: where it is (pc), the urls it found and the records
\* scrape_products returned to it
Worker(scraper_type, site, url) ==
    [scraper_type |-> scraper_type, site |-> site, url |-> url, pc |-> "started",
     urls |-> <<>>, new_products |-> <<>>]

\* scrape_best_sellers, scrape_featured, scrape_custom: the status is replaced
\* and a thread is started; nothing looks at scraping_status['active']
StartJob(w, scraper_type, site, url, time) ==
    [w EXCEPT !.scraping_status =
                  Status(w.dicts, TRUE, 0, <<"Starting", scraper_type>>, <<time>>,
                         ExpectedDuration(scraper_type)),
              !.dicts = @ + 1,
              !.workers = Append(@, Worker(scraper_type, site, url))]

\* get_scraping_status: the estimate is written into the current dict
PollStatus(w, estimated_progress) ==
    IF w.scraping_status.active /\ w.scraping_status.start_time # NoTime
         /\ w.scraping_status.expected_duration > 0
         /\ estimated_progress > w.scraping_status.progress
    THEN [w EXCEPT !.scraping_status.progress = estimated_progress]
    ELSE w

\* faulty variant of TerminalStatus: the job stays active
TerminalStatusActive(w, progress, message) ==
    [w EXCEPT !.scraping_status = Status(w.dicts, TRUE, progress, message, NoTime, 0),
              !.dicts = @ + 1]

\* the four assignments `scraping_status = {'active': False, ...}` of run_scraper
TerminalStatus(w, progress, message) ==
    [w EXCEPT !.scraping_status = Status(w.dicts, FALSE, progress, message, NoTime, 0),
              !.dicts = @ + 1]

\* the worker j is at pc and has found urls and new_products
At(w, j, pc, urls, new_products) ==
    [w EXCEPT !.workers[j].pc = pc, !.workers[j].urls = urls,
              !.workers[j].new_products = new_products]

\* run_scraper up to the call of scrape_products: the scraper is missing, or
\* the urls are found and the message is written into the current dict; the
\* result is the store and the wrapper
FindUrls(d, w, j, page, fetched) ==
    LET job == w.workers[j]
    IN IF ~w.scraper_available
       THEN Result(d, At(TerminalStatus(w, 0, <<"Scraper not available">>), j, "done",
                         <<>>, <<>>), NoExc)
       ELSE With(IF job.scraper_type = "custom" THEN ScrapeCustomUrl(d, job.url)
                 ELSE GetProductUrls(d, job.scraper_type, JobLimit(job.scraper_type),
                                     job.site, page, fetched),
                 LAMBDA r :
                    IF r.exc # NoExc
                    THEN Result(r.disk, At(w, j, "raised", <<>>, <<>>), r.exc)
                    ELSE With(IF job.scraper_type = "custom" THEN r.ret ELSE StoreUrls(r.ret),
                              LAMBDA urls :
                                 Result(r.disk,
                                        At([w EXCEPT !.scraping_status.message =
                                                        <<"Found", job.scraper_type>>],
                                           j, "found", urls, <<>>),
                                        NoExc)))

\* new_products = scraper.scrape_products(urls, ...)
ScrapeJob(d, w, j, usable, broken) ==
    LET job == w.workers[j]
    IN With(ScrapeProductsRun(d, job.urls, JobMode(job.scraper_type), usable, broken),
            LAMBDA r :
               IF r.exc # NoExc THEN Result(r.disk, At(w, j, "raised", job.urls, <<>>), r.exc)
               ELSE Result(r.disk, At(w, j, "scraped", job.urls, r.ret.all_products), NoExc))

\* the end of run_scraper: `if new_products` with its extend and save,
\* `else`, and the except clause
FinishJob(d, w, j) ==
    LET job == w.workers[j]
        failed == <<"Scraping failed">>
    IN IF job.pc = "raised"
       THEN Result(d, At(TerminalStatus(w, 0, failed), j, "done", job.urls, <<>>), NoExc)
       ELSE IF job.new_products = <<>>
       THEN Result(d, At(TerminalStatus(w, 0, <<"No new products found">>), j, "done",
                         job.urls, <<>>), NoExc)
       ELSE With([w EXCEPT !.current_products = @ \o job.new_products],
                 LAMBDA extended :
                    With(SaveProducts(d, extended.current_products),
                         LAMBDA s :
                            IF s.exc # NoExc
                            THEN Result(s.disk,
                                        At(TerminalStatus(extended, 0, failed), j, "done",
                                           job.urls, job.new_products), NoExc)
                            ELSE Result(s.disk,
                                        At(TerminalStatus(extended, 100, <<"Complete">>), j,
                                           "done", job.urls, job.new_products), NoExc)))

(* ------------------------------ actions ------------------------------- *)

Batches == SeqUpTo(InputRecords, MaxBatch)

\* documents a caller may hand to save_database
InputDocuments == {Document("absent", ps, 0) : ps \in Batches}

\* filters a caller may hand to get_existing_products
Filters == Sources \cup {NoSource, ""}

\* indexes a caller may hand to delete_product
Indexes == -1 .. MaxProducts

\* no call has returned since the caller took the last result
Idle == [op |-> "idle", arg |-> NoRet, pre |-> NoRet, ret |-> NoRet, exc |-> NoExc]

\* a public method runs to completion on the disk; `last` keeps the call, the
\* disk it found, what it returned and the exception that left it
Call(op, arg, r) ==
    /\ last.op = "idle"
    /\ Len(r.disk.file.products) <= MaxProducts
    /\ file' = r.disk.file
    /\ backups' = r.disk.backups
    /\ now' = r.disk.now
    /\ fault' = fault
    /\ last' = [op |-> op, arg |-> arg, pre |-> Disk, ret |-> r.ret, exc |-> r.exc]
    /\ web' = web

\* the caller takes the result
Return ==
    /\ last.op # "idle"
    /\ last' = Idle
    /\ UNCHANGED <<file, backups, now, fault, saves, web>>

load_database == Call("load_database", NoRet, LoadDatabase(Disk)) /\ saves' = 0

\* consecutive save_database calls that found an existing non-empty file
SaveCall(docs, bound) ==
    /\ saves < bound
    /\ \E data \in docs : Call("save_database", data, SaveDatabase(Disk, data))
    /\ saves' = IF NonEmpty(file) THEN saves + 1 ELSE 0

save_database == SaveCall(InputDocuments, MaxSaves)

save_products ==
    /\ \E products \in Batches : Call("save_products", products, SaveProducts(Disk, products))
    /\ saves' = 0

add_products ==
    /\ \E batch \in Batches : Call("add_products", batch, AddProducts(Disk, batch))
    /\ saves' = 0

get_existing_products ==
    /\ \E s \in Filters : Call("get_existing_products", s, GetExistingProducts(Disk, s))
    /\ saves' = 0

delete_product ==
    /\ \E i \in Indexes : Call("delete_product", i, DeleteProduct(Disk, i))
    /\ saves' = 0

get_database_health ==
    /\ Call("get_database_health", NoRet, GetDatabaseHealth(Disk))
    /\ saves' = 0

\* the wall clock reaches the next second; the program reads the clock only to
\* name a backup, so a second in which no backup was taken is not told apart
\* from the one before it
TickTo(bound) ==
    /\ last.op = "idle"
    /\ now < bound
    /\ \E i \in 1..Len(backups) : backups[i].name = now
    /\ now' = now + 1
    /\ UNCHANGED <<file, backups, fault, saves, last, web>>

Tick == TickTo(MaxSec)

\* the store file is removed from outside the program
RemoveFile ==
    /\ last.op = "idle"
    /\ Exists(file)
    /\ file' = AbsentFile
    /\ saves' = 0
    /\ UNCHANGED <<backups, now, fault, last, web>>

\* files the constructor may find: none, or one left by an earlier run or version
PreFiles ==
    {AbsentFile, EmptyFile, CorruptFile, ScalarFile}
        \cup {LegacyFile(ps) : ps \in Batches}

\* __init__: initialize_database when the file does not exist
Construct(f) == IF Exists(f) THEN f ELSE DocFile(<<>>, 0)

InitWith(f) ==
    /\ file = Construct(f)
    /\ backups = <<>>
    /\ now = 0
    /\ fault = "none"
    /\ saves = 0
    /\ last = Idle
    /\ web = NoWeb

Init == \E f \in PreFiles : InitWith(f)

Next ==
    \/ load_database
    \/ save_database
    \/ save_products
    \/ add_products
    \/ get_existing_products
    \/ delete_product
    \/ get_database_health
    \/ Return
    \/ Tick
    \/ RemoveFile

Spec == Init /\ [][Next]_vars

(* a store created by the constructor, then only add_products and delete_product *)

InitFresh == InitWith(AbsentFile)

NextFresh == add_products \/ delete_product \/ Return \/ Tick

SpecFresh == InitFresh /\ [][NextFresh]_vars

(* backup rotation: save_database calls on a store that exists, over many seconds *)

RotationDocuments == {Document("full", <<>>, 0)}

save_database_rot == SaveCall(RotationDocuments, MaxRotSaves)

TickRot == TickTo(MaxRotSec)

NextRotation == save_database_rot \/ Return \/ TickRot

SpecRotation == InitFresh /\ [][NextRotation]_vars

(* the store on a file system that may fail, and the scrape batch on top of it *)

\* url lists a caller may hand to scrape_products
UrlLists == SeqUpTo(Urls, MaxBatch)

\* a batch; `usables` are the sets of urls whose pages may yield a record
ScrapeCall(usables) ==
    /\ last.op = "idle"
    /\ \E urls \in UrlLists : \E mode_name \in Modes : \E usable \in usables :
          \E r \in {ScrapeProducts(Disk, urls, mode_name, usable)} :
             /\ r.disk.now <= MaxSec
             /\ Call("scrape_products", [urls |-> urls, mode_name |-> mode_name, usable |-> usable], r)
    /\ saves' = 0

\* in this specification every page yields a record
scrape_products_fault == ScrapeCall({Urls})

\* the file system starts or stops failing
SetFault ==
    /\ last.op = "idle"
    /\ \E f \in Faults \ {fault} : fault' = f
    /\ saves' = 0
    /\ UNCHANGED <<file, backups, now, last, web>>

\* files the constructor may find in this specification
FaultPreFiles ==
    {AbsentFile, EmptyFile, CorruptFile, ScalarFile, LegacyFile(<<Record("a", "best_sellers")>>)}

InitFault == \E f \in FaultPreFiles : InitWith(f)

\* documents a caller hands to save_database in this specification
FaultDocuments ==
    {Document("full", <<>>, 0), Document("absent", <<Record("b", "custom")>>, 0)}

save_database_fault == SaveCall(FaultDocuments, MaxSaves)

NextFault ==
    \/ load_database
    \/ save_database_fault
    \/ scrape_products_fault
    \/ SetFault
    \/ Return
    \/ RemoveFile

SpecFault == InitFault /\ [][NextFault]_vars

(* the listing-page extractor applied to every small page *)

\* hrefs met on a listing page: none; a root-relative product link; the same
\* product as an absolute link with a query; a product link without leading
\* slash; the product archive itself; a product of another registered site; a
\* product whose slug holds an excluded term
ListingHrefs ==
    {NoHref,
     Url("root", "", <<"product", "widget">>, FALSE),
     Url("abs", MainDomain, <<"product", "widget">>, TRUE),
     Url("rel", "", <<"product", "gadget">>, FALSE),
     Url("root", "", <<"product">>, FALSE),
     Url("abs", "nicedreamzwholesale.com", <<"product", "widget">>, FALSE),
     Url("root", "", <<"product", "cart-widget">>, FALSE)}

\* structural selectors an element is matched by
SelectorSets == {{}, {1}, {3}, {5}}

Elements == {Element(h, ss) : h \in ListingHrefs, ss \in SelectorSets}

Pages == SeqUpTo(Elements, MaxLinks)

Limits == {NoLimit} \cup {<<n>> : n \in 0..MaxLimit}

\* a call of a function of the scraper: the store is not touched
Apply(op, arg, ret) ==
    /\ last.op = "idle"
    /\ last' = [op |-> op, arg |-> arg, pre |-> NoRet, ret |-> ret, exc |-> NoExc]
    /\ UNCHANGED <<file, backups, now, fault, saves, web>>

get_product_urls_from_page ==
    /\ last.op = "idle"
    /\ \E page \in Pages : \E limit \in Limits : \E fetched \in BOOLEAN :
          Apply("get_product_urls_from_page",
                [page |-> page, limit |-> limit, fetched |-> fetched],
                GetProductUrlsFromPage(page, limit, fetched))

NextListing == get_product_urls_from_page \/ Return

SpecListing == InitFresh /\ [][NextListing]_vars

(* the listing of each registered site, on a store that holds one product *)

Categories == {"best_sellers", "featured", "custom"}

SiteLimits == {NoLimit, <<MaxLimit>>}

get_product_urls ==
    /\ last.op = "idle"
    /\ \E category \in Categories : \E limit \in SiteLimits :
       \E site \in SiteKeys \cup {"elsewhere"} : \E page \in Pages : \E fetched \in BOOLEAN :
          Call("get_product_urls",
               [category |-> category, limit |-> limit, site |-> site, page |-> page,
                fetched |-> fetched],
               GetProductUrls(Disk, category, limit, site, page, fetched))
    /\ saves' = 0

InitSites == InitWith(LegacyFile(<<Record("a", "best_sellers")>>))

NextSites == get_product_urls \/ Return

SpecSites == InitSites /\ [][NextSites]_vars

(* the gallery extractor applied to every small product page *)

\* image urls met on a product page: an original, three size variants of it,
\* a variant of another image, a logo
GalleryUrls ==
    {ImageUrl("img", "none", 0, FALSE),
     ImageUrl("img", "dash", 300, FALSE),
     ImageUrl("img", "dash", 1024, TRUE),
     ImageUrl("img", "under", 300, FALSE),
     ImageUrl("pic", "dash", 300, FALSE),
     ImageUrl("logo", "none", 0, FALSE)}

\* where an <img> sits: in the product gallery; in a related-products block;
\* in a gallery inside an upsells block; in an <aside>
AncestorChains ==
    {<<Ancestor("div", {"woocommerce-product-gallery"}, "")>>,
     <<Ancestor("div", {"related-products"}, "")>>,
     <<Ancestor("div", {"woocommerce-product-gallery"}, ""), Ancestor("section", {"upsells"}, "")>>,
     <<Ancestor("aside", {}, "")>>}

\* gallery selectors an <img> is matched by
GallerySelectorSets == {{1}, {3}}

Images ==
    {[attrs |-> <<u>>, sels |-> ss, ancestors |-> anc] :
        u \in GalleryUrls, ss \in GallerySelectorSets, anc \in AncestorChains}

ProductPages == SeqUpTo(Images, MaxImages)

extract_image_urls ==
    /\ last.op = "idle"
    /\ \E page \in ProductPages : Apply("extract_image_urls", page, ExtractImageUrls(page))

NextImages == extract_image_urls \/ Return

SpecImages == InitFresh /\ [][NextImages]_vars

(* image paths: the normalizer applied to every small path, and the loader *)

\* segments a stored path is made of
Segments == {"", "data", "products", "img.jpg"}

\* what a stored path starts with: nothing (a relative path), '/', the
\* canonical root, the old macOS home
PathRoots == {<<>>, <<"">>, CanonicalRoot, MacRoot}

\* None, '' and every root followed by up to MaxSegs segments
Paths == {root \o tail : root \in PathRoots, tail \in SeqUpTo(Segments, MaxSegs)}

\* the image paths of a stored product: empty, relative, canonical, macOS,
\* absolute under another root with and without data/products
StoredPaths ==
    {<<"">>,
     <<"img.jpg">>,
     CanonicalRoot \o <<"data", "products", "img.jpg">>,
     MacRoot \o <<"data", "products", "img.jpg">>,
     <<"", "tmp", "data", "products", "img.jpg">>,
     <<"", "tmp", "img.jpg">>}

\* files on the disk of the server
DiskFiles ==
    SUBSET {CanonicalRoot \o <<"data", "products", "img.jpg">>, <<"", "tmp", "img.jpg">>}

normalize_image_path ==
    /\ last.op = "idle"
    /\ \E image_path \in Paths :
          Apply("normalize_image_path", image_path, NormalizeImagePath(image_path))

load_products_data ==
    /\ last.op = "idle"
    /\ \E local_images \in SeqUpTo(StoredPaths, MaxImages) : \E files \in DiskFiles :
          Call("load_products_data", [local_images |-> local_images, files |-> files],
               LoadProductsData(Disk, local_images))
    /\ saves' = 0

NextPaths == normalize_image_path \/ load_products_data \/ Return

SpecPaths == InitFresh /\ [][NextPaths]_vars

(* product titles: the extractor applied to every small page, and batches *)

\* texts of title elements: empty; two characters between whitespace; a
\* product name; a name between whitespace; two error pages
TitleTexts ==
    {<<>>,
     <<" ", "ab", " ">>,
     <<"Hemp">>,
     <<" ", "Hemp", " ", "ab", " ">>,
     <<"Error", " ", "404">>,
     <<"Page", " ", "Not Found">>}

\* <h1 class="product_title">, <div class="product_title">, an <h1> under
\* .page-title, <h1 class="entry-title">
TitleShapes ==
    {[tag |-> "h1", classes |-> {"product_title"}, in_page_title |-> FALSE],
     [tag |-> "div", classes |-> {"product_title"}, in_page_title |-> FALSE],
     [tag |-> "h1", classes |-> {}, in_page_title |-> TRUE],
     [tag |-> "h1", classes |-> {"entry-title"}, in_page_title |-> FALSE]}

TitleElements ==
    {TitleElement(sh.tag, sh.classes, sh.in_page_title, text) :
        sh \in TitleShapes, text \in TitleTexts}

Soups == SeqUpTo(TitleElements, MaxTitles)

extract_product_data ==
    /\ last.op = "idle"
    /\ \E soup \in Soups : \E url \in Urls : \E fetched \in BOOLEAN :
          Apply("extract_product_data", [soup |-> soup, url |-> url, fetched |-> fetched],
                ExtractProductData(soup, url, fetched))

\* what a url of a batch answers: nothing, a product page, an error page
Answers ==
    {[fetched |-> FALSE, soup |-> <<>>],
     [fetched |-> TRUE, soup |-> <<TitleElement("h1", {"product_title"}, FALSE, <<"Hemp">>)>>],
     [fetched |-> TRUE, soup |-> <<TitleElement("h1", {}, FALSE, <<"Error", " ", "404">>)>>]}

\* a batch over a site
scrape_products_site ==
    /\ last.op = "idle"
    /\ \E urls \in UrlLists : \E mode_name \in Modes : \E site \in [Urls -> Answers] :
          \E r \in {ScrapeProducts(Disk, urls, mode_name, UsableUrls(site))} :
             /\ r.disk.now <= MaxSec
             /\ Call("scrape_products",
                     [urls |-> urls, mode_name |-> mode_name, site |-> site], r)
    /\ saves' = 0

NextTitles == extract_product_data \/ scrape_products_site \/ Return

SpecTitles == InitFresh /\ [][NextTitles]_vars

(* downloads: both downloaders applied to every small list of urls *)

\* urls: .jpg, .PNG, .png followed by a query string
DownloadUrls == {DownloadUrl("jpg", FALSE), DownloadUrl("PNG", FALSE), DownloadUrl("png", TRUE)}

\* payload lengths: under both thresholds, between them, two above them
PayloadSizes == {500, 1500, 5000, 6000}

Items ==
    {[url |-> u, response |-> r] :
        u \in DownloadUrls, r \in {Payload(n) : n \in PayloadSizes} \cup {Failed}}

\* images_folder before the call, file name to length: empty or absent, or
\* with one image file
Folders ==
    {<<>>,
     [f \in {<<2, "jpg">>} |-> 5000],
     [f \in {<<1, "png">>} |-> 6000],
     [f \in {<<1, "jpg">>} |-> 500]}

download_images ==
    /\ last.op = "idle"
    /\ \E items \in SeqUpTo(Items, MaxDownloads) : \E files \in Folders : \E writable \in BOOLEAN :
          Apply("download_images", [items |-> items, files |-> files, writable |-> writable],
                DownloadImages(items, files, writable))

basic_download_images ==
    /\ last.op = "idle"
    /\ \E items \in SeqUpTo(Items, MaxDownloads) : \E files \in Folders : \E writable \in BOOLEAN :
          Apply("basic_download_images", [items |-> items, files |-> files, writable |-> writable],
                BasicDownloadImages(items, files, writable))

scraper_download_images ==
    /\ last.op = "idle"
    /\ \E items \in SeqUpTo(Items, MaxDownloads) : \E files \in Folders : \E writable \in BOOLEAN :
          Apply("scraper_download_images",
                [items |-> items, files |-> files, writable |-> writable],
                ScraperDownloadImages(items, files, writable))

NextDownloads == download_images \/ basic_download_images \/ scraper_download_images \/ Return

SpecDownloads == InitFresh /\ [][NextDownloads]_vars

(* batches: scrape_products over pages that yield a record or not and product
   folders that can be written or not *)

scrape_products ==
    /\ last.op = "idle"
    /\ \E urls \in UrlLists : \E mode_name \in Modes :
       \E usable \in SUBSET Urls : \E broken \in SUBSET Urls :
          \E r \in {ScrapeProductsRun(Disk, urls, mode_name, usable, broken)} :
             /\ r.disk.now <= MaxSec
             /\ Call("scrape_products",
                     [urls |-> urls, mode_name |-> mode_name, usable |-> usable,
                      broken |-> broken], r)
    /\ saves' = 0

NextBatch == scrape_products \/ Return

SpecBatch == InitFresh /\ [][NextBatch]_vars

(* the web wrapper: scrape requests, their worker threads and status polls *)

\* the store files WebAppWrapper may find: none, or one product
WebPreFiles == {AbsentFile, DocFile(<<Stamp(Record("a", "best_sellers"))>>, 1)}

\* web_app = WebAppWrapper(): load_products_data fills current_products;
\* scraper_module is set or not by initialize_components
InitWeb ==
    \E f \in WebPreFiles : \E available \in BOOLEAN :
       /\ file = Construct(f)
       /\ backups = <<>>
       /\ now = 0
       /\ fault = "none"
       /\ saves = 0
       /\ last = Idle
       /\ web = [NoWeb EXCEPT !.scraper_available = available,
                              !.current_products =
                                  LoadProducts([file |-> Construct(f), backups |-> <<>>,
                                                now |-> 0, fault |-> "none"]).ret]

\* a step of the wrapper that leaves the store and the wrapper as in r
WebStep(r) ==
    /\ file' = r.disk.file
    /\ backups' = r.disk.backups
    /\ now' = r.disk.now
    /\ web' = r.ret
    /\ UNCHANGED <<fault, saves, last>>

\* the sites a request names (an unsupported one is answered 400, no job)
JobSites == {"ineedhemp"}

\* the urls a custom request names: the two of the store and one of no
\* supported site (an empty one is answered with an error, no job)
CustomUrls == Urls \cup {"other"}

\* what the listing page serves to a job
JobPages ==
    {<<Element(Url("abs", MainDomain, <<"product", "widget">>, FALSE), {1})>>,
     <<Element(Url("abs", MainDomain, <<"product", "widget">>, FALSE), {1}),
       Element(Url("abs", MainDomain, <<"product", "gadget">>, FALSE), {1})>>}

\* no thread of run_scraper is running
NoJobRunning == \A j \in 1..Len(web.workers) : web.workers[j].pc = "done"

\* a request handler; `serial` is the caller's discipline of waiting for the
\* running job, which no handler enforces; `most` bounds the requests of a run
Request(most, serial, scraper_type, site, url) ==
    /\ Len(web.workers) < most
    /\ serial => NoJobRunning
    /\ web' = StartJob(web, scraper_type, site, url, now)
    /\ UNCHANGED <<file, backups, now, fault, saves, last>>

scrape_best_sellers(most, serial) ==
    \E site \in JobSites : Request(most, serial, "best_sellers", site, NoUrl)

scrape_featured(most, serial) ==
    \E site \in JobSites : Request(most, serial, "featured", site, NoUrl)

scrape_custom(most, serial) ==
    \E url \in CustomUrls : Request(most, serial, "custom", "ineedhemp", url)

\* the estimates a poll computes while a job runs: halfway, and the cap
Estimates == {50, 95}

get_scraping_status ==
    \E estimated_progress \in Estimates :
       \E polled \in {PollStatus(web, estimated_progress)} :
          /\ polled # web
          /\ web' = polled
          /\ UNCHANGED <<file, backups, now, fault, saves, last>>

\* the three stretches of the thread j
run_scraper_find(j) ==
    /\ j <= Len(web.workers)
    /\ web.workers[j].pc = "started"
    /\ \E page \in JobPages : \E fetched \in BOOLEAN :
          \E r \in {FindUrls(Disk, web, j, page, fetched)} : WebStep(r)

run_scraper_scrape(j) ==
    /\ j <= Len(web.workers)
    /\ web.workers[j].pc = "found"
    /\ \E broken \in {{}, Urls} :
          \E r \in {ScrapeJob(Disk, web, j, Urls, broken)} : WebStep(r)

run_scraper_finish(j) ==
    /\ j <= Len(web.workers)
    /\ web.workers[j].pc \in {"scraped", "raised"}
    /\ \E r \in {FinishJob(Disk, web, j)} : WebStep(r)

run_scraper(j) == run_scraper_find(j) \/ run_scraper_scrape(j) \/ run_scraper_finish(j)

Jobs == 1..MaxJobs

NextWeb ==
    \/ scrape_best_sellers(MaxJobs, FALSE)
    \/ scrape_featured(MaxJobs, FALSE)
    \/ scrape_custom(MaxJobs, FALSE)
    \/ get_scraping_status
    \/ \E j \in Jobs : run_scraper_find(j)
    \/ \E j \in Jobs : run_scraper_scrape(j)
    \/ \E j \in Jobs : run_scraper_finish(j)

SpecWeb == InitWeb /\ [][NextWeb]_vars

\* the callers wait for the running job before the next request
NextWebSerial ==
    \/ scrape_best_sellers(MaxJobs, TRUE)
    \/ scrape_featured(MaxJobs, TRUE)
    \/ scrape_custom(MaxJobs, TRUE)
    \/ get_scraping_status
    \/ \E j \in Jobs : run_scraper_find(j)
    \/ \E j \in Jobs : run_scraper_scrape(j)
    \/ \E j \in Jobs : run_scraper_finish(j)

SpecWebSerial == InitWeb /\ [][NextWebSerial]_vars

FairJobs == 1..MaxFairJobs

NextWebFair ==
    \/ scrape_best_sellers(MaxFairJobs, FALSE)
    \/ scrape_featured(MaxFairJobs, FALSE)
    \/ scrape_custom(MaxFairJobs, FALSE)
    \/ get_scraping_status
    \/ \E j \in FairJobs : run_scraper_find(j)
    \/ \E j \in FairJobs : run_scraper_scrape(j)
    \/ \E j \in FairJobs : run_scraper_finish(j)

\* a started thread runs on: the interpreter schedules every thread, and each
\* request of the scraper returns or times out
SpecWebFair ==
    InitWeb /\ [][NextWebFair]_vars /\ \A j \in FairJobs : WF_vars(run_scraper(j))

(* ------------------------ vocabulary of the claims -------------------- *)

\* the records a store file holds: those of a document or of a legacy array
StoredRecords(f) == IF f.kind \in {"doc", "legacy"} THEN f.products ELSE <<>>

UrlsOf(records) == {records[i].url : i \in 1..Len(records)} \ {NoUrl}

Before == StoredRecords(last.pre.file)

After == StoredRecords(file)

Called(op) == last.op = op

PublicOps ==
    {"load_database", "save_database", "save_products", "add_products",
     "get_existing_products", "delete_product", "get_database_health"}

(* ------------------------------- C1 ----------------------------------- *)

\* C1: an add_products(B) call that returns success leaves total_products (and
\* the number of stored records) equal to the number of records stored before
\* plus the number of distinct non-empty urls of B that were absent from the
\* store; calling add_products(B) again on the disk it left returns success and
\* changes neither the product list nor total_products.
C1_AddCountsNewUrls ==
    (Called("add_products") /\ last.ret = TRUE) =>
        LET fresh == UrlsOf(last.arg) \ UrlsOf(Before)
            again == AddProducts(Disk, last.arg)
        IN /\ Len(After) = Len(Before) + Cardinality(fresh)
           /\ file.kind = "doc" => file.total = Len(Before) + Cardinality(fresh)
           /\ again.ret = TRUE
           /\ again.disk.file.products = file.products
           /\ again.disk.file.total = file.total

\* a successful add_products whose batch names one new url twice and one old url
C1_Witness ==
    /\ Called("add_products")
    /\ last.ret = TRUE
    /\ Len(last.arg) = 2
    /\ last.arg[1].url = last.arg[2].url
    /\ Len(Before) = 1
    /\ Len(After) = 2

(* ------------------------------- C2 ----------------------------------- *)

\* C2: starting from an empty store, after any sequence of add_products and
\* delete_product calls, every stored record has a non-empty url and no two
\* stored records have the same url, whatever their source tags.
C2_UrlsUniqueNonEmpty ==
    /\ \A i \in 1..Len(After) : After[i].url # NoUrl
    /\ \A i, j \in 1..Len(After) : After[i].url = After[j].url => i = j

\* two records are stored after a batch that repeated a stored url under
\* another tag
C2_Witness ==
    /\ Called("add_products")
    /\ Len(After) = 2
    /\ \E i \in 1..Len(last.arg) : \E j \in 1..Len(Before) :
          /\ last.arg[i].url = Before[j].url
          /\ last.arg[i].source # Before[j].source

(* ------------------------------- C3 ----------------------------------- *)

\* the call wrote the store file
Wrote ==
    \/ Called("save_database")
    \/ Called("save_products")
    \/ Called("add_products") /\ last.ret = TRUE /\ Len(After) > Len(Before)
    \/ Called("delete_product") /\ last.ret.ok
    \/ Called("load_database") /\ last.pre.file.kind = "legacy"

\* C3: after every operation that writes the store (save_database,
\* save_products, add_products with a new record, delete_product with a valid
\* index, the legacy migration of load_database) the persisted document's
\* metadata.total_products equals the length of its products list.
C3_TotalIsLength == Wrote => (file.kind = "doc" /\ file.total = Len(file.products))

\* add_products has appended a record to a store that held some
C3_Witness ==
    /\ Called("add_products")
    /\ last.ret = TRUE
    /\ Len(Before) >= 1
    /\ Len(After) > Len(Before)

(* ------------------------------- C4 ----------------------------------- *)

\* C4: get_existing_products(s) with a source tag s holds a url u exactly when
\* some stored record has url u and source tag s (so the "custom" result never
\* holds a url whose only record is tagged "best_sellers"); with no filter
\* (None, or the empty string) it returns the non-empty urls of all records.
C4_SourceScopedUrls ==
    Called("get_existing_products") =>
        /\ last.exc = NoExc
        /\ NoUrl \notin last.ret
        /\ last.arg \in Sources =>
              \A u \in Urls :
                  u \in last.ret <=>
                      \E i \in 1..Len(Before) :
                          Before[i].url = u /\ Before[i].source = last.arg
        /\ last.arg \notin Sources => last.ret = UrlsOf(Before)

\* the "custom" query leaves out a stored url tagged only "best_sellers" and
\* returns another
C4_Witness ==
    /\ Called("get_existing_products")
    /\ last.arg = "custom"
    /\ \E i \in 1..Len(Before) : Before[i].url = "a" /\ Before[i].source = "best_sellers"
    /\ "a" \notin last.ret
    /\ "b" \in last.ret

(* ------------------------------- C5 ----------------------------------- *)

\* a non-empty batch whose every url is already stored
AllStored ==
    /\ Called("add_products")
    /\ last.arg # <<>>
    /\ \A i \in 1..Len(last.arg) : last.arg[i].url \in UrlsOf(Before)

\* C5 as stated: such a call returns success and leaves the product list,
\* total_products, the store file and the set of backups unchanged.
C5_AllDuplicatesTouchNothing ==
    AllStored => (last.ret = TRUE /\ file = last.pre.file /\ backups = last.pre.backups)

\* C5, amended: such a call returns success and leaves the stored records
\* unchanged; when the store file is a versioned document it leaves the file
\* (total_products included) and the set of backups unchanged, and when the
\* file is a legacy array the load inside add_products has migrated it.
C5_AllDuplicatesKeepRecords ==
    AllStored =>
        /\ last.ret = TRUE
        /\ After = Before
        /\ last.pre.file.kind = "doc" => (file = last.pre.file /\ backups = last.pre.backups)
        /\ last.pre.file.kind = "legacy" => file = DocFile(Before, Len(Before))

\* a stored url is re-added under another tag to a versioned document
C5_Witness ==
    /\ AllStored
    /\ last.pre.file.kind = "doc"
    /\ \E j \in 1..Len(Before) :
          Before[j].url = last.arg[1].url /\ Before[j].source # last.arg[1].source

(* ------------------------------- C6 ----------------------------------- *)

\* C6: after KeepCount + 1 consecutive save_database calls on an existing
\* non-empty store file, exactly KeepCount backup files remain, and they are
\* the KeepCount most recently created: the newest is the one the last save
\* took, and each was taken in a later second than the one before it.
C6_RotationKeepsN ==
    (Called("save_database") /\ saves >= KeepCount + 1) =>
        /\ Len(backups) = KeepCount
        /\ backups[Len(backups)].name = last.pre.now
        /\ \A i \in 1..(Len(backups) - 1) : backups[i].name < backups[i + 1].name

(* ------------------------------- C7 ----------------------------------- *)

Unparseable(f) == f.kind \in {"corrupt", "empty"}

\* C7: when the store file is unparseable, load_database copies that file to a
\* backup, rewrites the store as a fresh empty document and returns that
\* document (total_products 0, no products) without raising.
C7_CorruptSelfHeals ==
    (Called("load_database") /\ Unparseable(last.pre.file)) =>
        /\ last.exc = NoExc
        /\ last.ret = Document("full", <<>>, 0)
        /\ file = DocFile(<<>>, 0)
        /\ backups # <<>>
        /\ backups[Len(backups)] = [name |-> last.pre.now, kind |-> last.pre.file.kind]

\* load_database has met a corrupt file and left a fresh document
C7_Witness ==
    /\ Called("load_database")
    /\ last.pre.file.kind = "corrupt"
    /\ file.kind = "doc"

(* ------------------------------- C8 ----------------------------------- *)

\* C8: when the store file is absent, load_database creates the file and
\* returns a document with total_products 0 and no products.
C8_AbsentIsCreated ==
    (Called("load_database") /\ ~Exists(last.pre.file)) =>
        /\ last.exc = NoExc
        /\ file = DocFile(<<>>, 0)
        /\ last.ret = Document("full", <<>>, 0)

\* load_database has run after the file was removed
C8_Witness == Called("load_database") /\ ~Exists(last.pre.file) /\ Exists(file)

(* ------------------------------- C9 ----------------------------------- *)

ValidIndex == 0 <= last.arg /\ last.arg < Len(Before)

\* the record at 0-based position i is gone and the others keep their order
RemovedAt(before, after, i) ==
    /\ Len(after) = Len(before) - 1
    /\ \A j \in 1..Len(after) : after[j] = IF j <= i THEN before[j] ELSE before[j + 1]

\* C9 as stated: a valid index removes exactly that record and returns
\* (True, record); any other index returns (False, None) and leaves the store
\* file unchanged.
C9_DeleteOrUntouched ==
    Called("delete_product") =>
        IF ValidIndex
          THEN last.ret = Deleted(Before[last.arg + 1]) /\ RemovedAt(Before, After, last.arg)
          ELSE last.ret = NotDeleted /\ file = last.pre.file

\* C9, amended: a valid index removes exactly that record and returns
\* (True, record); any other index returns (False, None) and leaves the stored
\* records unchanged, and the store file unchanged when it is a versioned
\* document (a missing, unparseable or legacy file is still initialized or
\* migrated by the load inside delete_product).
C9_DeleteOrRecordsKept ==
    Called("delete_product") =>
        IF ValidIndex
          THEN /\ last.ret = Deleted(Before[last.arg + 1])
               /\ RemovedAt(Before, After, last.arg)
               /\ file.kind = "doc"
          ELSE /\ last.ret = NotDeleted
               /\ After = Before
               /\ last.pre.file.kind = "doc" =>
                     (file = last.pre.file /\ backups = last.pre.backups)

\* the middle record of three has been deleted
C9_Witness ==
    /\ Called("delete_product")
    /\ Len(Before) = 3
    /\ last.arg = 1
    /\ last.ret.ok
    /\ Before[1] # Before[3]

(* ------------------------------- C10 ---------------------------------- *)

\* C10: no public store operation lets an exception escape when the store file
\* is missing or unparseable or the index is out of range; delete_product
\* reports an index out of range as (False, None).
C10_NoExceptionEscapes ==
    last.op \in PublicOps =>
        /\ last.exc = NoExc
        /\ (Called("delete_product") /\ ~ValidIndex) => last.ret = NotDeleted

\* get_existing_products has run on an unparseable file
C10_Witness ==
    /\ Called("get_existing_products")
    /\ Unparseable(last.pre.file)
    /\ last.exc = NoExc

(* ------------------------------- C11 ---------------------------------- *)

\* the call met a read or a write of the store file that failed
ReadFailed == last.pre.fault = "read"

WriteFailed == last.pre.fault \in {"write", "full"}

\* the batch had some url to process
BatchRan == Called("scrape_products") /\ last.arg.urls # <<>>

C12_HealthTouchesNothing ==
    Called("get_database_health") => (file = last.pre.file /\ backups = last.pre.backups)

\* C12, amended: get_database_health leaves the store file and the set of
\* backups as they were when the store file is a versioned document; the load
\* it starts with still migrates a legacy flat array (backup, then rewrite as
\* a document with the same records), backs up and re-initializes an
\* unparseable file, and creates a missing file.
C12_HealthKeepsDocument ==
    Called("get_database_health") =>
        /\ last.exc = NoExc
        /\ last.pre.file.kind = "doc" => (file = last.pre.file /\ backups = last.pre.backups)
        /\ last.pre.file.kind = "legacy" =>
              /\ file = DocFile(Before, Len(Before))
              /\ backups # <<>>
              /\ backups[Len(backups)] = [name |-> last.pre.now, kind |-> "legacy"]
        /\ Unparseable(last.pre.file) =>
              /\ file = DocFile(<<>>, 0)
              /\ backups # <<>>
              /\ backups[Len(backups)] = [name |-> last.pre.now, kind |-> last.pre.file.kind]
        /\ ~Exists(last.pre.file) => (file = DocFile(<<>>, 0) /\ backups = last.pre.backups)
        /\ last.pre.file.kind = "scalar" => (file = last.pre.file /\ backups = last.pre.backups)

\* the report was made on a versioned document that holds records and has backups
C12_Witness ==
    /\ Called("get_database_health")
    /\ last.pre.file.kind = "doc"
    /\ Len(Before) >= 2
    /\ last.pre.backups # <<>>
    /\ last.ret.status = "warnings_found"

(* ------------------------------- C13 ---------------------------------- *)

Elems(seq) == {seq[i] : i \in 1..Len(seq)}

\* the listing page was fetched and searched
Listed == Called("get_product_urls_from_page") /\ last.arg.fetched

\* the selectors that match some element of the page
MatchingSelectors == {k \in 1..SelectorCount : Select(last.arg.page, k) # <<>>}

\* the product urls the elements matched by selector k stand for
ValidLinksOf(k) ==
    {CleanProductUrl(el.href) : el \in {e \in Elems(Select(last.arg.page, k)) :
        e.href # NoHref /\ IsValidProductUrl(CleanProductUrl(e.href))}}

\* the selectors that yield some valid product link
YieldingSelectors == {k \in 1..SelectorCount : ValidLinksOf(k) # {}}

Least(S) == CHOOSE k \in S : \A j \in S : k <= j

\* C13 as stated: the result consists solely of links matched by the first
\* selector, in priority order, that matches any element of the page.
C13_FirstMatchingSelectorOnly ==
    (Listed /\ MatchingSelectors # {}) =>
        Elems(last.ret) \subseteq ValidLinksOf(Least(MatchingSelectors))

\* C13, amended: the result consists solely of links matched by the first
\* selector, in priority order, that yields a valid product link (a selector
\* whose matches hold no valid product link is passed over); links that only
\* a lower-priority selector matches never appear; without a limit the result
\* is exactly that selector's valid links, each once; when no selector yields
\* a valid link the result is empty.
C13_FirstYieldingSelectorOnly ==
    Listed =>
        IF YieldingSelectors = {} THEN last.ret = <<>>
        ELSE LET won == ValidLinksOf(Least(YieldingSelectors))
             IN /\ last.ret # <<>>
                /\ Elems(last.ret) \subseteq won
                /\ ~LimitSet(last.arg.limit) => Elems(last.ret) = won

\* the third selector is the first to yield a link, and a valid link that
\* only a lower-priority selector matches is left out of the result
C13_Witness ==
    /\ Listed
    /\ MatchingSelectors # {}
    /\ Least(MatchingSelectors) = 3
    /\ last.ret # <<>>
    /\ \E k \in YieldingSelectors : k > 3 /\ ~(ValidLinksOf(k) \subseteq Elems(last.ret))

(* ------------------------------- C14 ---------------------------------- *)

\* every returned url follows the product-path convention, holds none of
\* cart/checkout/account and appears once; a failed fetch gives the empty list
ProductLinksOnly ==
    /\ last.exc = NoExc
    /\ \A i \in 1..Len(last.ret) :
          /\ HasProductPath(last.ret[i])
          /\ ~EndsWithProduct(last.ret[i])
          /\ ~HasExcludedTerm(last.ret[i])
    /\ \A i, j \in 1..Len(last.ret) : last.ret[i] = last.ret[j] => i = j
    /\ ~last.arg.fetched => last.ret = <<>>

\* C14 as stated: every returned url follows the product-path convention,
\* contains none of cart/checkout/account and appears at most once; for every
\* integer limit >= 0 the result holds at most limit urls; a fetch failure
\* yields an empty list instead of an exception.
C14_ValidUniqueCapped ==
    Called("get_product_urls_from_page") =>
        /\ ProductLinksOnly
        /\ last.arg.limit # NoLimit => Len(last.ret) <= last.arg.limit[1]

\* C14, amended: the same, the cap holding for every integer limit >= 1; a
\* limit of 0 is taken as no limit, like None.
C14_ValidUniqueCappedFromOne ==
    Called("get_product_urls_from_page") =>
        /\ ProductLinksOnly
        /\ (last.arg.limit # NoLimit /\ last.arg.limit[1] >= 1) =>
              Len(last.ret) <= last.arg.limit[1]
        /\ (last.arg.limit # NoLimit /\ last.arg.limit[1] = 0) =>
              last.ret = GetProductUrlsFromPage(last.arg.page, NoLimit, last.arg.fetched)

\* a page with two different product links was listed with limit 1
C14_Witness ==
    /\ Listed
    /\ last.arg.limit = <<1>>
    /\ Len(last.ret) = 1
    /\ Cardinality(ValidLinksOf(Least(YieldingSelectors \cup {SelectorCount}))) = 2

(* ------------------------------- C15 ---------------------------------- *)

\* href resolved against the base url of a site, parameters cut
Resolve(href, domain) ==
    IF href.form = "abs" THEN [href EXCEPT !.query = FALSE]
    ELSE Url("abs", domain, href.path, FALSE)

\* C15: for every site key of the registry, get_product_urls resolves the
\* relative links of the listing against that site's base url and returns only
\* urls on that site's domain.
C15_SiteScoped ==
    (Called("get_product_urls") /\ last.arg.site \in SiteKeys) =>
        \A i \in 1..Len(last.ret) :
            /\ last.ret[i].host = Sites[last.arg.site].domain
            /\ \E el \in Elems(last.arg.page) :
                  el.href # NoHref /\ Resolve(el.href, Sites[last.arg.site].domain) = last.ret[i]

(* ------------------------------- C16 ---------------------------------- *)

\* the urls extract_image_urls had to choose among: those of the elements it
\* did not discard
Candidates ==
    {FoundUrl(img.attrs)[1] : img \in {i \in Elems(last.arg) :
        ~IsInExcludedContainer(i) /\ FoundUrl(i.attrs) # <<>>}}

\* u is at least as large as v: an unsuffixed url counts as the largest, two
\* suffixed urls compare by the area inferred from the suffix
AtLeastAsLarge(u, v) ==
    \/ u.suffix = "none"
    \/ v.suffix # "none" /\ ExtractImageDimensions(u) >= ExtractImageDimensions(v)

\* C16: extract_image_urls never returns two urls that differ only by a size
\* suffix: for each base name exactly one url is kept, and it is the candidate
\* with the largest inferred pixel area, an unsuffixed url counting as the
\* largest, whatever the order in which the candidates are met.
C16_LargestVariantKept ==
    Called("extract_image_urls") =>
        /\ \A i, j \in 1..Len(last.ret) :
              GetImageBaseName(last.ret[i]) = GetImageBaseName(last.ret[j]) => i = j
        /\ \A c \in Candidates :
              \E i \in 1..Len(last.ret) :
                  /\ GetImageBaseName(last.ret[i]) = GetImageBaseName(c)
                  /\ last.ret[i] \in Candidates
                  /\ AtLeastAsLarge(last.ret[i], c)

(* ------------------------------- C17 ---------------------------------- *)

\* the tags among the entries of excluded_containers
ExcludedTags == {"aside"}

\* some ancestor matches an entry of the excluded-container list, as a class,
\* an id or a tag
HasExcludedAncestor(img) ==
    \E i \in 1..Len(img.ancestors) :
        \/ img.ancestors[i].classes \cap ExcludedContainers # {}
        \/ img.ancestors[i].id \in ExcludedContainers
        \/ img.ancestors[i].tag \in ExcludedTags

\* C17: no url returned by extract_image_urls comes from an image element that
\* has an ancestor matching an entry of the excluded-container list: every
\* returned url is the url of some element without such an ancestor.
C17_NoExcludedContainerImage ==
    Called("extract_image_urls") =>
        \A i \in 1..Len(last.ret) :
            \E img \in Elems(last.arg) :
                /\ ~HasExcludedAncestor(img)
                /\ FoundUrl(img.attrs) = <<last.ret[i]>>

(* ------------------------------- C18 ---------------------------------- *)

\* C18: normalize_image_path is idempotent: normalizing the path it returned
\* returns that path again, for every path it is handed, and a path that
\* starts with the canonical root '/var/www/tools/' is returned unchanged.
C18_NormalizeIdempotent ==
    Called("normalize_image_path") =>
        /\ NormalizeImagePath(last.ret) = last.ret
        /\ StartsWith(last.arg, CanonicalRoot) => last.ret = last.arg

\* an old macOS path was moved under the canonical root
C18_Witness ==
    /\ Called("normalize_image_path")
    /\ StartsWith(last.arg, MacRoot)
    /\ last.ret # last.arg
    /\ StartsWith(last.ret, CanonicalRoot)
    /\ NormalizeImagePath(last.ret) = last.ret

(* ------------------------------- C19 ---------------------------------- *)

\* a non-empty path of none of the recognized layouts: not under the canonical
\* root, not an old macOS path with data and products, not relative, without
\* '/data/products/'
Unmatched(p) ==
    /\ p # NoPath /\ p # <<"">>
    /\ ~StartsWith(p, CanonicalRoot)
    /\ ~(StartsWith(p, MacRoot) /\ InParts(p, "data") /\ InParts(p, "products"))
    /\ p[1] = ""
    /\ ProductsAt(p, 2) = {}

\* a file of that name lies under the canonical products root
FoundUnderProducts(p, files) ==
    \E f \in files :
        /\ StartsWith(f, CanonicalRoot \o <<"data", "products">>)
        /\ f[Len(f)] = p[Len(p)]

\* C19: a non-empty path that matches none of the recognized layouts, is not
\* a file on disk and whose filename is not found under the canonical products
\* root normalizes to None, and load_products_data leaves that image, and only
\* that image, out of the product's local_images.
C19_UnmatchedMissingIsDropped ==
    (Called("load_products_data") /\ last.exc = NoExc) =>
        LET missing(p) == /\ Unmatched(p)
                          /\ p \notin last.arg.files
                          /\ ~FoundUnderProducts(p, last.arg.files)
        IN /\ \A p \in Elems(last.arg.local_images) :
                 missing(p) => NormalizeImagePath(p) = NoPath
           /\ last.ret.local_images =
                 NormalizeLocalImages(SelectSeq(last.arg.local_images, LAMBDA p : ~missing(p)))

(* ------------------------------- C20 ---------------------------------- *)

\* a text longer than 2 characters without a word of the error-page blocklist
UsableText(text) ==
    /\ TextLen(text) > 2
    /\ \A word \in ErrorWords : ~WordIn(word, Lower(text))

\* the text a title selector yields on a page: that of the first element it
\* matches, without the whitespace around it (a sequence of one; empty when
\* the page was not fetched or the selector matches nothing)
Yield(soup, fetched, k) ==
    IF fetched /\ SelectOne(soup, k) # <<>> THEN <<Strip(SelectOne(soup, k)[1].text)>> ELSE <<>>

\* the selectors that yield a usable text
UsableSelectors(soup, fetched) ==
    {k \in 1..TitleSelectorCount :
        Yield(soup, fetched, k) # <<>> /\ UsableText(Yield(soup, fetched, k)[1])}

\* the urls process_single_product takes as already scraped
AlreadyScraped ==
    IF ScrapeSource(last.arg.mode_name) = "custom"
      THEN UrlsOf(SelectSeq(Before, LAMBDA p : p.source = "custom"))
      ELSE UrlsOf(Before)

\* C20: extract_product_data returns a record if and only if some title
\* selector yields a text longer than 2 characters without an error-page
\* keyword, and the record's title is the text of the first such selector in
\* priority order, whatever the selectors before it yield; otherwise the result
\* is None, and a batch goes on: scrape_products returns one record for every
\* url of the batch, in order, that was not already scraped and whose page has
\* such a title, the urls after a dropped page included.
C20_FirstUsableTitle ==
    /\ Called("extract_product_data") =>
          LET usable == UsableSelectors(last.arg.soup, last.arg.fetched)
          IN IF usable = {} THEN last.ret = <<>>
             ELSE last.ret = <<[url |-> last.arg.url,
                                title |-> Yield(last.arg.soup, TRUE, Least(usable))[1]]>>
    /\ (Called("scrape_products") /\ last.exc = NoExc) =>
          LET site == last.arg.site
              kept == SelectSeq(last.arg.urls,
                         LAMBDA u : /\ u \notin AlreadyScraped
                                    /\ UsableSelectors(site[u].soup, site[u].fetched) # {})
          IN /\ Len(last.ret) = Len(kept)
             /\ \A i \in 1..Len(kept) : last.ret[i].url = kept[i]

\* a selector of higher priority yields an unusable text and the title comes
\* from a later selector
C20_Witness ==
    /\ Called("extract_product_data")
    /\ last.arg.fetched
    /\ last.ret # <<>>
    /\ \E k \in 1..TitleSelectorCount :
          /\ Yield(last.arg.soup, TRUE, k) # <<>>
          /\ ~UsableText(Yield(last.arg.soup, TRUE, k)[1])
          /\ \E j \in (k + 1)..TitleSelectorCount :
                Yield(last.arg.soup, TRUE, j) = <<last.ret[1].title>>

(* ------------------------------- C21 ---------------------------------- *)

Downloaders == {"download_images", "basic_download_images"}

\* the minimum byte threshold of the downloader called
Threshold == IF last.op = "download_images" THEN TinyBytes ELSE BasicTinyBytes

\* the file of the i-th url is in the folder before the call
InFolder(i) == FileName(i, last.arg.items[i].url) \in DOMAIN last.arg.files

\* the fetch of the i-th url fails or its payload is below the threshold
BadFetch(i) ==
    /\ ~InFolder(i)
    /\ \/ last.arg.items[i].response = Failed
       \/ last.arg.items[i].response.size < Threshold

\* the path p stands for the i-th url: its own file, or for download_images
\* a file of the same length, in the folder before the call or of an earlier url
StandsFor(p, i) ==
    \/ p = FileName(i, last.arg.items[i].url)
    \/ /\ last.op = "download_images"
       /\ ~InFolder(i)
       /\ \/ p \in DOMAIN last.arg.files /\ last.arg.files[p] = last.arg.items[i].response.size
          \/ \E j \in 1..(i - 1) :
                /\ p = FileName(j, last.arg.items[j].url)
                /\ last.arg.items[j].response.ok
                /\ last.arg.items[j].response = last.arg.items[i].response

\* C21: download_images and basic_download_images never abort on a failure
\* for one image: every url whose file is not already in the folder is
\* requested, in order, whatever happened to the urls before it; a url whose
\* fetch fails or whose payload is below the threshold adds no path; and the
\* returned paths follow the order of the urls: they stand, in order, for the
\* urls of a set that holds no failed url and, when files can be written, every
\* other url.
C21_DownloadNeverAborts ==
    (last.op \in Downloaders) =>
        LET n == Len(last.arg.items)
            paths == last.ret.downloaded
        IN /\ Len(last.ret.fetched) = Cardinality({i \in 1..n : ~InFolder(i)})
           /\ \A k \in 1..Len(last.ret.fetched) :
                 /\ ~InFolder(last.ret.fetched[k])
                 /\ k > 1 => last.ret.fetched[k - 1] < last.ret.fetched[k]
           /\ \E S \in SUBSET (1..n) :
                 /\ \A i \in S : ~BadFetch(i)
                 /\ last.arg.writable => S = {i \in 1..n : ~BadFetch(i)}
                 /\ Len(paths) = Cardinality(S)
                 /\ \A i \in S : StandsFor(paths[Cardinality({j \in S : j <= i})], i)

\* the first fetch failed, the second url was requested and its file returned
C21_Witness ==
    /\ last.op \in Downloaders
    /\ Len(last.arg.items) = 2
    /\ last.arg.items[1].response = Failed
    /\ last.ret.fetched = <<1, 2>>
    /\ last.ret.downloaded = <<FileName(2, last.arg.items[2].url)>>
    /\ last.ret.written = {FileName(2, last.arg.items[2].url)}

(* ------------------------------- C22 ---------------------------------- *)

\* the urls process_single_product takes as already scraped, from the store
\* before the batch
ScrapedBefore ==
    IF ScrapeSource(last.arg.mode_name) = "custom"
      THEN UrlsOf(SelectSeq(Before, LAMBDA p : p.source = "custom"))
      ELSE UrlsOf(Before)

\* processing the url fails: it was scraped before, its page gives no record,
\* or its folder cannot be written
ItemFails(u) == u \in ScrapedBefore \/ u \notin last.arg.usable \/ u \in last.arg.broken

\* C22: in scrape_products a failure while one url is processed (no page, no
\* title, an error raised while its artifacts are written) is caught at that
\* url, counted as failed and skipped, and every later url is processed: the
\* call returns, it has counted every url, the failed count is the number of
\* urls that failed and the records returned are those of the other urls.
C22_ItemFailureIsSkipped ==
    Called("scrape_products") =>
        LET urls == last.arg.urls
        IN /\ last.exc = NoExc
           /\ Len(last.ret.progress) = Len(urls)
           /\ urls # <<>> =>
                 last.ret.progress[Len(urls)].failed =
                     Cardinality({i \in 1..Len(urls) : ItemFails(urls[i])})
           /\ Len(last.ret.all_products) = Len(SelectSeq(urls, LAMBDA u : ~ItemFails(u)))
           /\ \A i \in 1..Len(last.ret.all_products) :
                 last.ret.all_products[i].url = SelectSeq(urls, LAMBDA u : ~ItemFails(u))[i]

(* ------------------------------- C27 ---------------------------------- *)

\* no url occurs twice in the batch
NoRepeats(urls) == \A i, j \in 1..Len(urls) : urls[i] = urls[j] => i = j

\* C27: every record returned by scrape_products for a batch without repeated
\* urls is a record this call appended to the store: after the call the store
\* holds, behind the records it held before, a record with that url and the
\* scrape_source of the returned record.
C27_ReturnedWereAppended ==
    (Called("scrape_products") /\ last.exc = NoExc /\ NoRepeats(last.arg.urls)) =>
        \A i \in 1..Len(last.ret.all_products) :
            \E k \in (Len(Before) + 1)..Len(After) :
                /\ After[k].url = last.ret.all_products[i].url
                /\ After[k].source = last.ret.all_products[i].source

(* ------------------------------- C30 ---------------------------------- *)

\* C30: when scrape_products finishes a batch of n urls, successful + failed
\* = i after the i-th url, for every i up to n, and the number of records
\* returned is the final value of successful.
C30_CountersAddUp ==
    (Called("scrape_products") /\ last.exc = NoExc) =>
        LET n == Len(last.arg.urls)
            progress == last.ret.progress
        IN /\ Len(progress) = n
           /\ \A i \in 1..n : progress[i].successful + progress[i].failed = i
           /\ Len(last.ret.all_products) = IF n = 0 THEN 0 ELSE progress[n].successful

\* a batch of two urls, one of which gave a record
C30_Witness ==
    /\ Called("scrape_products") /\ last.exc = NoExc
    /\ Len(last.arg.urls) = 2
    /\ last.ret.progress[2] = [successful |-> 1, failed |-> 1]
    /\ Len(last.ret.all_products) = 1

(* ------------------------------- C25 ---------------------------------- *)

\* C25: load_database on a legacy flat-array store file returns a versioned
\* document whose products are the records of the array in the same order,
\* with total_products their number, and leaves the file in that shape: the
\* next load_database returns the same products and writes nothing.
C25_LegacyMigratedOnce ==
    (Called("load_database") /\ last.pre.file.kind = "legacy") =>
        LET records == last.pre.file.products
            again == LoadDatabase(Disk)
        IN /\ last.exc = NoExc
           /\ last.ret = Document("full", records, Len(records))
           /\ file = DocFile(records, Len(records))
           /\ again.exc = NoExc
           /\ again.ret = Document("full", records, Len(records))
           /\ again.disk = Disk

\* a legacy file with records has been loaded
C25_Witness ==
    /\ Called("load_database")
    /\ last.pre.file.kind = "legacy"
    /\ Len(last.pre.file.products) > 1
    /\ file.kind = "doc"
    /\ file.products = last.pre.file.products

(* ------------------------------- C29 ---------------------------------- *)

\* C29: the local image paths download_images produces for a product, in the
\* empty images folder of a product just scraped, never hold the same file
\* path twice, so image_count is the number of distinct image files of the
\* product, also when a payload has the byte length of an earlier file.
C29_LocalImagesDistinct ==
    (Called("scraper_download_images") /\ last.arg.files = <<>>) =>
        /\ \A i, j \in 1..Len(last.ret.local_images) :
              last.ret.local_images[i] = last.ret.local_images[j] => i = j
        /\ last.ret.image_count = Cardinality(last.ret.folder)

(* ------------------------- C23: one job at a time --------------------- *)

\* the threads of run_scraper that have started and not ended
Running == {j \in 1..Len(web.workers) : web.workers[j].pc # "done"}

\* C23: at most one scrape job is active at any time: a request that arrives
\* while a worker runs does not start a second worker.
C23_OneWorkerAtATime == Cardinality(Running) <= 1

(* -------------------- C24: the status is replaced whole --------------- *)

\* C24: the shared status changes only by replacement of the whole value:
\* whenever its content changes, the dict is a new one.
C24_StatusReplacedWhole ==
    [][web'.scraping_status # web.scraping_status
          => web'.scraping_status.id # web.scraping_status.id]_vars

(* --------------- C26: serial jobs keep the store's urls apart --------- *)

\* no two records of the sequence carry the same url
DistinctUrls(records) ==
    \A i, k \in 1..Len(records) : records[i].url = records[k].url => i = k

\* C26: jobs being run one at a time from a store without duplicate urls and
\* an in-memory list that matches it, the store holds no two records with the
\* same url once a job has completed.
C26_SerialJobsKeepUrlsDistinct == NoJobRunning => DistinctUrls(StoredRecords(file))

(* ------------------ C28: every job ends in a terminal status ---------- *)

Started(j) == j <= Len(web.workers)

Ended(j) == j <= Len(web.workers) /\ web.workers[j].pc = "done"

\* the messages of the four terminal statuses
TerminalMessages ==
    {<<"Complete">>, <<"No new products found">>, <<"Scraping failed">>,
     <<"Scraper not available">>}

\* the thread j ends in this step
Ends(j) == Started(j) /\ ~Ended(j) /\ web'.workers[j].pc = "done"

\* C28: every started job ends, and the step in which it ends replaces the
\* status by a terminal one with active false, whatever the scrape gave.
C28_JobEndsInTerminalStatus ==
    /\ \A j \in FairJobs : Started(j) ~> Ended(j)
    /\ [][\A j \in FairJobs :
             Ends(j) => /\ ~web'.scraping_status.active
                        /\ web'.scraping_status.message \in TerminalMessages
                        /\ web'.scraping_status.id # web.scraping_status.id]_vars

\* a job whose scrape raised has ended and the status says so
C28_Witness ==
    /\ \E j \in 1..Len(web.workers) : Ended(j)
    /\ web.scraping_status.message = <<"Scraping failed">>
    /\ ~web.scraping_status.active

====
